---- MODULE Spec2Model ----
(***************************************************************************)
(* A state-machine model of jflatdb: the record store (Database), its      *)
(* durable write path (Storage), the transaction layer (Transaction) and   *)
(* schema migration (SchemaMigration, SchemaVersion).                      *)
(*                                                                         *)
(* Python objects have identity: a record (dict) or a record list can be   *)
(* referenced from several places and mutated in place.  The model keeps   *)
(* an object store for both: `heap` holds the record objects, `lists` the  *)
(* list objects (sequences of record ids), and db.data, Indexer.data and   *)
(* Transaction._data_snapshot are list ids.  After every operation the     *)
(* store is renumbered in a fixed traversal order and unreachable objects  *)
(* are dropped (garbage collection), so equal program states are equal     *)
(* model states.                                                           *)
(***************************************************************************)
EXTENDS FiniteSets, Integers, Sequences, TLC

VARIABLES
    heap,       \* record objects: Seq(record); a record id is an index
    lists,      \* list objects: Seq(Seq(record id)); a list id is an index
    dbData,     \* Database.data: a list id
    idxData,    \* Indexer.data: a list id, or NoList before the first build
    cache,      \* QueryCache.cache: OrderedDict as a sequence, oldest first
    qc,         \* QueryCache.enabled, .hits, .misses and .max_size
    file,       \* the store file on disk
    wal,        \* the write-ahead-log file on disk
    tmp,        \* the number of temp files in the store folder
    txn,        \* the Transaction objects the caller holds
    meta,       \* SchemaVersion._metadata
    metaFile,   \* the schema-version side file on disk
    schemaPk,   \* Schema.primary_key is set (add_field("id", int, primary_key=True))
    res         \* what the last call did: its name, its error, its inner calls

vars == <<heap, lists, dbData, idxData, cache, qc, file, wal, tmp, txn, meta,
          metaFile, schemaPk, res>>

-----------------------------------------------------------------------------
(* Bounds of the model.                                                    *)

MaxLen == 2
MaxOps == 2
MaxVersion == 2
MaxTmp == 1
MaxGets == 2
MaxCache == 2

-----------------------------------------------------------------------------
(* Values.                                                                 *)

\* Python's None as a field value (the result of dict.get on a missing key).
None == -1

NoList == 0

Txns == {1, 2}

\* The records the callers insert: with and without the key field "id".
InsRecs == { [id |-> 1, v |-> 1], [id |-> 2, v |-> 1], [v |-> 1] }

\* Queries are ordered field/value pairs (dict.items() order).
Queries == { <<>>, << <<"v", 1>> >>, << <<"id", 1>> >> }

\* Update patches.
Patches == { [v |-> 2] }

\* dict.get(k)
Get(r, k) == IF k \in DOMAIN r THEN r[k] ELSE None

\* dict.update(u)
Merge(r, u) ==
    [k \in (DOMAIN r) \cup (DOMAIN u) |-> IF k \in DOMAIN u THEN u[k] ELSE r[k]]

\* all(item.get(k) == v for k, v in query.items())
MatchesGet(r, q) == \A i \in 1..Len(q) : Get(r, q[i][1]) = q[i][2]

RECURSIVE Flatten(_)
Flatten(ss) == IF ss = <<>> THEN <<>> ELSE Head(ss) \o Flatten(Tail(ss))

\* The distinct elements of s in order of first occurrence.
RECURSIVE Distinct(_, _)
Distinct(s, acc) ==
    IF s = <<>> THEN acc
    ELSE IF \E i \in 1..Len(acc) : acc[i] = Head(s)
         THEN Distinct(Tail(s), acc)
         ELSE Distinct(Tail(s), Append(acc, Head(s)))

IndexOf(s, x) == CHOOSE i \in 1..Len(s) : s[i] = x

\* The elements s[i] of s, in order, whose flag keep[i] is TRUE.
RECURSIVE SelectBy(_, _)
SelectBy(s, keep) ==
    IF s = <<>> THEN <<>>
    ELSE IF Head(keep) THEN <<Head(s)>> \o SelectBy(Tail(s), Tail(keep))
         ELSE SelectBy(Tail(s), Tail(keep))

\* The record values of the list object l in the object store (h, ls).
ValsOf(h, ls, l) == [i \in 1..Len(ls[l]) |-> h[ls[l][i]]]

\* The live record list, by value.
Live == ValsOf(heap, lists, dbData)

\* The records of transaction t's snapshot, by value.
SnapVals(t) == ValsOf(heap, lists, txn[t].snap)

-----------------------------------------------------------------------------
(* The program state as one value.  Every method below is a function from  *)
(* such a value to the value after the call; `err` and `msg` hold the      *)
(* exception the call raised ("none" when it returned), `calls` the        *)
(* methods the call invoked, `ret` the value it returned.                  *)

\* What a call is given and what it returns, when there is nothing to tell:
\* no argument, None.
NoValue == [k |-> "none"]

\* A returned bool and a returned list of records.
Bool(b) == [k |-> "bool", v |-> b]

Records(l) == [k |-> "list", recs |-> l]

Cur ==
    [heap |-> heap, lists |-> lists, db |-> dbData, idx |-> idxData,
     cache |-> cache, qc |-> qc, file |-> file, wal |-> wal, tmp |-> tmp, txn |-> txn,
     meta |-> meta, metaFile |-> metaFile,
     err |-> "none", msg |-> "", calls |-> <<>>, arg |-> NoValue, ret |-> NoValue]

Raise(S, e, m) == [S EXCEPT !.err = e, !.msg = m]

\* The record values of list l in S.
ListVals(S, l) == ValsOf(S.heap, S.lists, l)

-----------------------------------------------------------------------------
(* Security: encrypt / decrypt of the record list.                         *)

Encrypt(recs) == [k |-> "enc", recs |-> recs]

DecryptOk(c) == c.k = "enc"

Decrypt(c) == c.recs

-----------------------------------------------------------------------------
(* Storage: the store file and its write-ahead log.                        *)

Absent == [k |-> "absent"]

\* An incomplete, non-empty prefix of an encrypted list.
Partial == [k |-> "partial"]

\* A text given to Storage.write directly: a sequence of characters, of which
\* "CR" and "LF" are the carriage return and the line feed.
Text(s) == [k |-> "text", s |-> s]

\* os.linesep of the platform the code runs on (POSIX).
LineSep == <<"LF">>

\* What open(path, 'w', encoding='utf-8') writes for a string: every line
\* feed becomes os.linesep (newline=None).
RECURSIVE WriteNewlines(_)
WriteNewlines(s) ==
    IF s = <<>> THEN <<>>
    ELSE (IF Head(s) = "LF" THEN LineSep ELSE <<Head(s)>>) \o WriteNewlines(Tail(s))

\* What open(path, 'r', encoding='utf-8').read() returns for the characters
\* on disk: CR LF and a lone CR both become a line feed (universal newlines).
RECURSIVE UniversalNewlines(_)
UniversalNewlines(s) ==
    IF s = <<>> THEN <<>>
    ELSE IF Head(s) = "CR"
         THEN IF Len(s) >= 2 /\ s[2] = "LF"
              THEN <<"LF">> \o UniversalNewlines(Tail(Tail(s)))
              ELSE <<"LF">> \o UniversalNewlines(Tail(s))
         ELSE <<Head(s)>> \o UniversalNewlines(Tail(s))

\* The characters f.write(content) puts on disk, and the string f.read()
\* returns for a file.  An encrypted list is a text without CR or LF.
OnDisk(c) == IF c.k = "text" THEN Text(WriteNewlines(c.s)) ELSE c

AsRead(f) == IF f.k = "text" THEN Text(UniversalNewlines(f.s)) ELSE f

\* The length of a content; an encrypted list has more than one character.
Size(c) == IF c.k = "text" THEN Len(c.s) ELSE IF c.k = "enc" THEN 2 ELSE 1

\* The first n characters of a content: what a write that stops early leaves.
Cut(c, n) ==
    IF c.k = "text" THEN Text(SubSeq(c.s, 1, n))
    ELSE IF n <= 0 THEN Text(<<>>)
    ELSE IF n >= Size(c) THEN c
    ELSE Partial

\* How a Storage.write ends.  "ok": it returns with every step done.
\* "walopen", "wal0", "wal": _write_wal raises OSError at open() (the WAL is
\* as before), before the first or before the last character.  "tmp",
\* "replace": the temp file write or os.replace raises and the except block
\* unlinks the temp file; "tmp_kept", "replace_kept": that unlink raises
\* too, its OSError is swallowed and the temp file stays.  "wal_kept":
\* os.replace worked and the unlink in _remove_wal raises, which is
\* swallowed: write returns with the WAL left.
WriteModes ==
    {"ok", "walopen", "wal0", "wal", "tmp", "replace", "tmp_kept", "replace_kept",
     "wal_kept"}

\* Storage.read()
Storage_read(S) ==
    [S EXCEPT !.ret = IF S.file = Absent THEN Text(<<>>) ELSE AsRead(S.file)]

\* Storage.has_wal()
Storage_has_wal(S) == S.wal # Absent

\* Storage.write(content): WAL first, then temp file, os.replace, remove WAL.
\* On an error of the temp file write or of os.replace the except block
\* tries to unlink the temp file and raises the error again; the WAL stays.
\* A failing unlink, of the temp file or of the WAL, is swallowed.
Storage_write(S, content, mode) ==
    LET disk == OnDisk(content)
        staged == [S EXCEPT !.wal = disk]
        temp == [staged EXCEPT !.tmp = @ + 1]
        unlinked == [temp EXCEPT !.tmp = @ - 1]
        replaced == [temp EXCEPT !.tmp = @ - 1, !.file = disk]
    IN IF mode = "walopen"
       THEN Raise(S, "OSError", "write wal")
       ELSE IF mode = "wal0"
       THEN Raise([S EXCEPT !.wal = Cut(disk, 0)], "OSError", "write wal")
       ELSE IF mode = "wal"
       THEN Raise([S EXCEPT !.wal = Cut(disk, Size(disk) - 1)], "OSError", "write wal")
       ELSE IF mode \in {"tmp", "replace"}
       THEN Raise(unlinked, "OSError", "write file")
       ELSE IF mode \in {"tmp_kept", "replace_kept"}
       THEN Raise(temp, "OSError", "write file")
       ELSE IF mode = "wal_kept"
       THEN replaced
       ELSE [replaced EXCEPT !.wal = Absent]

\* How recover_from_wal ends.  "ok": it copies the WAL and removes it.
\* "read": reading the WAL, or opening the store file, raises: nothing is
\* changed.  "write": writing the store file raises after the file was
\* opened (truncated).  "wal_kept": the copy worked and the unlink in
\* _remove_wal raises, which is swallowed: True with the WAL left.
RecoverModes == {"ok", "read", "write", "wal_kept"}

\* The numbers of characters a write of the store file that raises can
\* leave in the file opened for writing: none (the empty file) up to all
\* but the last.  Of an encrypted list, whole or itself cut short, the file
\* is left empty or with a non-empty part (cut 1).
RecoverCuts(w, mode) ==
    IF mode = "write" /\ w # Absent
    THEN LET disk == OnDisk(AsRead(w))
         IN IF disk.k = "text"
            THEN {n \in 0..Size(disk) : n = 0 \/ n < Size(disk)}
            ELSE {0, 1}
    ELSE {0}

\* Storage.recover_from_wal(); a write that raises leaves the first n
\* characters of the content in the store file.
Storage_recover_from_wal(S, mode, n) ==
    IF ~Storage_has_wal(S) THEN [S EXCEPT !.ret = Bool(FALSE)]
    ELSE IF mode = "read" THEN [S EXCEPT !.ret = Bool(FALSE)]
    ELSE LET content == AsRead(S.wal)
             disk == OnDisk(content)
         IN IF mode = "write"
            THEN [S EXCEPT !.file = Cut(disk, n), !.ret = Bool(FALSE)]
            ELSE IF mode = "wal_kept"
            THEN [S EXCEPT !.file = disk, !.ret = Bool(TRUE)]
            ELSE [S EXCEPT !.file = disk, !.wal = Absent, !.ret = Bool(TRUE)]

\* Where the process can die inside Storage.write.
CrashPoints == {"wal", "tmp", "renamed", "done"}

\* The files a process that dies inside Storage.write(content) leaves: the
\* WAL with its first n characters; the complete WAL and a temp file; the
\* renamed file and the WAL; or the finished write.
Storage_write_crash(S, content, point, n) ==
    LET disk == OnDisk(content) IN
    CASE point = "wal" -> [S EXCEPT !.wal = Cut(disk, n)]
      [] point = "tmp" -> [S EXCEPT !.wal = disk, !.tmp = @ + 1]
      [] point = "renamed" -> [S EXCEPT !.wal = disk, !.file = disk]
      [] point = "done" -> [S EXCEPT !.wal = Absent, !.file = disk]

\* Database.save(): encrypt the live list and write it.
Database_save(S, mode) ==
    Storage_write(S, Encrypt(ListVals(S, S.db)), mode)

-----------------------------------------------------------------------------
(* Schema.validate(record, dataset) for the schema the callers configure:  *)
(* none, or the single primary-key field "id".                             *)

Schema_validate(pk, r, dataset) ==
    IF ~pk THEN "ok"
    ELSE IF Get(r, "id") = None THEN "NotNullViolation"
    ELSE IF \E i \in 1..Len(dataset) : Get(dataset[i], "id") = Get(r, "id")
         THEN "PrimaryKeyViolation"
         ELSE "ok"

-----------------------------------------------------------------------------
(* Database.insert / Database.delete.                                      *)

Database_insert(S, r, mode) ==
    LET v == Schema_validate(schemaPk, r, ListVals(S, S.db)) IN
    IF v # "ok" THEN Raise(S, v, "validate")
    ELSE LET o == Len(S.heap) + 1
             S1 == [S EXCEPT !.heap = Append(@, r),
                             !.lists[S.db] = Append(@, o),
                             !.idx = S.db,
                             !.cache = <<>>]
         IN Database_save(S1, mode)

\* all(d[k] == v for k, v in query.items()) raises KeyError when a key that
\* is looked up is missing; a mismatch on an earlier pair ends the scan.
RECURSIVE DeleteMatch(_, _)
DeleteMatch(d, q) ==
    IF q = <<>> THEN "match"
    ELSE IF Head(q)[1] \notin DOMAIN d THEN "KeyError"
    ELSE IF d[Head(q)[1]] # Head(q)[2] THEN "keep"
    ELSE DeleteMatch(d, Tail(q))

\* A faulty variant of delete() that leaves the query cache as it is.
Database_delete_KeepCache(S, q, mode) ==
    LET objs == S.lists[S.db]
        how == [i \in 1..Len(objs) |-> DeleteMatch(S.heap[objs[i]], q)]
    IN IF \E i \in 1..Len(objs) : how[i] = "KeyError"
       THEN Raise(S, "KeyError", "delete")
       ELSE LET kept == SelectBy(objs, [i \in 1..Len(objs) |-> how[i] = "keep"])
                S1 == [S EXCEPT !.lists = Append(@, kept),
                                !.db = Len(S.lists) + 1]
            IN Database_save(S1, mode)

\* Database.delete(query): a new list of the records that do not match is
\* bound to self.data, the cache is emptied and the list is saved.  The index
\* is not rebuilt: Indexer.data stays the old list.
Database_delete(S, q, mode) ==
    LET objs == S.lists[S.db]
        how == [i \in 1..Len(objs) |-> DeleteMatch(S.heap[objs[i]], q)]
    IN IF \E i \in 1..Len(objs) : how[i] = "KeyError"
       THEN Raise(S, "KeyError", "delete")
       ELSE LET kept == SelectBy(objs, [i \in 1..Len(objs) |-> how[i] = "keep"])
                S1 == [S EXCEPT !.lists = Append(@, kept),
                                !.db = Len(S.lists) + 1,
                                !.cache = <<>>]
            IN Database_save(S1, mode)

-----------------------------------------------------------------------------
(* QueryCache: an OrderedDict from the normalised query to a result list,  *)
(* oldest entry first, with its switch, its counters and its size.         *)

\* QueryCache.max_size as Database.__init__ sets it by default.
DefaultCacheSize == 100

\* QueryCache.__init__(max_size, enabled)
QueryCache_init(enabled, max_size) ==
    [enabled |-> enabled, hits |-> 0, misses |-> 0, max_size |-> max_size]

\* The field names of the model in the order Python compares str values.
FieldOrder == <<"id", "v">>

\* sorted(query.items()): the pairs of a dict ordered by field name.
RECURSIVE SortKeys(_)
SortKeys(q) ==
    IF q = <<>> THEN <<>>
    ELSE LET m == CHOOSE i \in 1..Len(q) :
                      \A j \in 1..Len(q) :
                          IndexOf(FieldOrder, q[i][1]) <= IndexOf(FieldOrder, q[j][1])
         IN <<q[m]>> \o SortKeys(SelectBy(q, [j \in 1..Len(q) |-> j # m]))

\* The JSON text of one pair with an int value: "name": 1
JsonPair(p) == "\"" \o p[1] \o "\": " \o ToString(p[2])

RECURSIVE JsonPairs(_)
JsonPairs(q) ==
    IF Len(q) = 1 THEN JsonPair(q[1])
    ELSE JsonPair(q[1]) \o ", " \o JsonPairs(Tail(q))

\* A faulty variant of _make_key that keeps the insertion order of the pairs.
QueryCache_make_key_Unsorted(q) ==
    IF q = <<>> THEN "{}" ELSE "{" \o JsonPairs(q) \o "}"

\* QueryCache._make_key(query): json.dumps(query, sort_keys=True)
QueryCache_make_key(q) ==
    IF q = <<>> THEN "{}" ELSE "{" \o JsonPairs(SortKeys(q)) \o "}"

\* The positions of the entry of key in the cache (none or one).
EntryOf(S, key) == {k \in 1..Len(S.cache) : S.cache[k].key = key}

\* A faulty variant of get() that leaves a hit entry where it is.
QueryCache_get_NoPromote(S, q) ==
    LET key == QueryCache_make_key(q)
        at == EntryOf(S, key)
    IN IF ~S.qc.enabled THEN [S EXCEPT !.ret = NoValue]
       ELSE IF at # {}
       THEN LET k == CHOOSE k \in at : TRUE IN
            [S EXCEPT !.calls = Append(@, "move_to_end"),
                      !.qc.hits = @ + 1,
                      !.ret = Records([j \in 1..Len(S.cache[k].val) |->
                                           S.heap[S.cache[k].val[j]]])]
       ELSE [S EXCEPT !.qc.misses = @ + 1, !.ret = NoValue]

\* QueryCache.get(query): None without counting when disabled; a hit moves
\* the entry to the end, counts a hit and returns the cached list; a miss
\* counts a miss and returns None.
QueryCache_get(S, q) ==
    LET key == QueryCache_make_key(q)
        at == EntryOf(S, key)
    IN IF ~S.qc.enabled THEN [S EXCEPT !.ret = NoValue]
       ELSE IF at # {}
       THEN LET k == CHOOSE k \in at : TRUE IN
            [S EXCEPT !.cache = SelectBy(S.cache, [j \in 1..Len(S.cache) |-> j # k])
                                   \o <<S.cache[k]>>,
                      !.calls = Append(@, "move_to_end"),
                      !.qc.hits = @ + 1,
                      !.ret = Records([j \in 1..Len(S.cache[k].val) |->
                                           S.heap[S.cache[k].val[j]]])]
       ELSE [S EXCEPT !.qc.misses = @ + 1, !.ret = NoValue]

\* A faulty variant of set() that evicts the newest entry.
QueryCache_set_EvictNewest(S, q, result) ==
    LET key == QueryCache_make_key(q)
        present == EntryOf(S, key) # {}
        added == SelectBy(S.cache, [j \in 1..Len(S.cache) |-> S.cache[j].key # key])
                    \o <<[key |-> key, val |-> result]>>
        over == Len(added) > S.qc.max_size
    IN IF ~S.qc.enabled THEN [S EXCEPT !.ret = NoValue]
       ELSE [S EXCEPT !.cache = IF over THEN SubSeq(added, 1, Len(added) - 1) ELSE added,
                      !.calls = @ \o (IF present THEN <<"move_to_end">> ELSE <<>>)
                                  \o (IF over THEN <<"popitem">> ELSE <<>>),
                      !.ret = NoValue]

\* QueryCache.set(query, result): nothing when disabled; the entry of the key
\* goes to the end (move_to_end when it exists) with a copy of the result
\* list (the same record objects), then the first entry is dropped (popitem)
\* when the cache is over its size.
QueryCache_set(S, q, result) ==
    LET key == QueryCache_make_key(q)
        present == EntryOf(S, key) # {}
        added == SelectBy(S.cache, [j \in 1..Len(S.cache) |-> S.cache[j].key # key])
                    \o <<[key |-> key, val |-> result]>>
        over == Len(added) > S.qc.max_size
    IN IF ~S.qc.enabled THEN [S EXCEPT !.ret = NoValue]
       ELSE [S EXCEPT !.cache = IF over THEN Tail(added) ELSE added,
                      !.calls = @ \o (IF present THEN <<"move_to_end">> ELSE <<>>)
                                  \o (IF over THEN <<"popitem">> ELSE <<>>),
                      !.ret = NoValue]

\* QueryCache.invalidate() and QueryCache.clear()
QueryCache_invalidate(S) == [S EXCEPT !.cache = <<>>, !.ret = NoValue]

\* A faulty variant of clear() that also resets the counters.
QueryCache_clear_ResetStats(S) ==
    [S EXCEPT !.cache = <<>>, !.qc.hits = 0, !.qc.misses = 0, !.ret = NoValue]

QueryCache_clear(S) == [S EXCEPT !.cache = <<>>, !.ret = NoValue]

\* QueryCache.enable()
QueryCache_enable(S) == [S EXCEPT !.qc.enabled = TRUE, !.ret = NoValue]

\* A faulty variant of disable() that keeps the entries.
QueryCache_disable_KeepEntries(S) ==
    [S EXCEPT !.qc.enabled = FALSE, !.ret = NoValue]

\* QueryCache.disable(): the switch goes off and the entries are dropped.
QueryCache_disable(S) ==
    [S EXCEPT !.qc.enabled = FALSE, !.cache = <<>>, !.ret = NoValue]

\* QueryCache.reset_stats()
QueryCache_reset_stats(S) ==
    [S EXCEPT !.qc.hits = 0, !.qc.misses = 0, !.ret = NoValue]

-----------------------------------------------------------------------------
(* Database.find, update: QueryCache.get, Indexer.query, QueryCache.set.   *)

\* Indexer.query(conditions) for equality conditions: the list Indexer.data
\* itself for the empty query, else the records of Indexer.data whose
\* item.get(field) equals the value for every pair.
Indexer_query(S, q) ==
    LET objs == S.lists[S.idx]
    IN IF q = <<>> THEN objs
       ELSE SelectBy(objs, [j \in 1..Len(objs) |-> MatchesGet(S.heap[objs[j]], q)])

\* Database.find(query).  A cached list is returned as it is; on a miss
\* Indexer.data, which does not exist before the first build, is filtered
\* and the result is cached.
Database_find(S, q) ==
    LET G == QueryCache_get(S, q) IN
    IF G.ret.k # "none" THEN G
    ELSE IF G.idx = NoList
         THEN Raise(G, "AttributeError", "'Indexer' object has no attribute 'data'")
    ELSE LET result == Indexer_query(G, q)
         IN [QueryCache_set(G, q, result) EXCEPT
                !.ret = Records([j \in 1..Len(result) |-> G.heap[result[j]]])]

\* The record objects find(query) returns in S: the cached list on a hit,
\* else the result of Indexer.query.
Found(S, q) ==
    LET at == EntryOf(S, QueryCache_make_key(q))
    IN IF S.qc.enabled /\ at # {}
       THEN S.cache[CHOOSE k \in at : TRUE].val
       ELSE Indexer_query(S, q)

\* A faulty variant of update() that does not save.
Database_update_Unsaved(S, q, u, mode) ==
    LET F == Database_find(S, q) IN
    IF F.err # "none" THEN F
    ELSE LET found == Found(S, q)
         IN [F EXCEPT !.heap = [i \in 1..Len(@) |->
                                   IF \E j \in 1..Len(found) : found[j] = i
                                   THEN Merge(@[i], u) ELSE @[i]],
                      !.cache = <<>>,
                      !.ret = NoValue]

\* Database.update(query, updates): the records find() returns are updated
\* in place, the cache is emptied and the live list is saved.  The index is
\* not rebuilt.
Database_update(S, q, u, mode) ==
    LET F == Database_find(S, q) IN
    IF F.err # "none" THEN F
    ELSE LET found == Found(S, q)
             S1 == [F EXCEPT !.heap = [i \in 1..Len(@) |->
                                          IF \E j \in 1..Len(found) : found[j] = i
                                          THEN Merge(@[i], u) ELSE @[i]],
                             !.cache = <<>>,
                             !.ret = NoValue]
         IN Database_save(S1, mode)

-----------------------------------------------------------------------------
(* Transaction.                                                            *)

NoTxn ==
    [made |-> FALSE, active |-> FALSE, committed |-> FALSE,
     rolled_back |-> FALSE, snap |-> NoList, ops |-> <<>>,
     base |-> <<>>, queued |-> 0]

\* copy.deepcopy(list l): new record objects and a new list object.
DeepCopy(S, l) ==
    LET n == Len(S.heap)
        objs == S.lists[l]
    IN [S EXCEPT !.heap = @ \o [i \in 1..Len(objs) |-> S.heap[objs[i]]],
                 !.lists = Append(@, [i \in 1..Len(objs) |-> n + i])]

\* A faulty variant of __init__ that keeps a reference to the live list
\* instead of copying it.
Transaction_init_Alias(S, t) ==
    [S EXCEPT !.txn[t] = [made |-> TRUE, active |-> FALSE,
                          committed |-> FALSE, rolled_back |-> FALSE,
                          snap |-> S.db, ops |-> <<>>,
                          base |-> ListVals(S, S.db), queued |-> 0]]

\* Transaction.__init__ (Database.transaction()).  Two history fields serve
\* the properties: `base` is the value of the copy taken here, `queued`
\* counts the operations the transaction has accepted.
Transaction_init(S, t) ==
    LET S1 == DeepCopy(S, S.db) IN
    [S1 EXCEPT !.txn[t] = [made |-> TRUE, active |-> FALSE,
                           committed |-> FALSE, rolled_back |-> FALSE,
                           snap |-> Len(S1.lists), ops |-> <<>>,
                           base |-> ListVals(S, S.db), queued |-> 0]]

\* A faulty variant of __enter__ that reopens a finished transaction.
Transaction_enter_Reset(S, t) ==
    [S EXCEPT !.txn[t].active = TRUE, !.txn[t].committed = FALSE,
              !.txn[t].rolled_back = FALSE]

Transaction_enter(S, t) == [S EXCEPT !.txn[t].active = TRUE]

\* A faulty variant of insert() that appends the record before validating.
Transaction_insert_AppendFirst(S, t, r) ==
    LET tx == S.txn[t] IN
    IF tx.committed THEN Raise(S, "TransactionError", "already committed")
    ELSE IF tx.rolled_back THEN Raise(S, "TransactionError", "rolled back")
    ELSE IF ~tx.active THEN Raise(S, "TransactionError", "not active")
    ELSE LET v == Schema_validate(schemaPk, r, ListVals(S, tx.snap))
             S1 == [S EXCEPT !.heap = Append(@, r),
                             !.lists[tx.snap] = Append(@, Len(S.heap) + 1)]
         IN IF v # "ok" THEN Raise(S1, v, "validate")
            ELSE [S1 EXCEPT !.txn[t].ops = Append(@, [type |-> "insert",
                                                      record |-> Len(S.heap) + 1]),
                            !.txn[t].queued = @ + 1]

\* A faulty variant of insert() that validates against the live list.
Transaction_insert_ValidateLive(S, t, r) ==
    LET tx == S.txn[t] IN
    IF tx.committed THEN Raise(S, "TransactionError", "already committed")
    ELSE IF tx.rolled_back THEN Raise(S, "TransactionError", "rolled back")
    ELSE IF ~tx.active THEN Raise(S, "TransactionError", "not active")
    ELSE LET v == Schema_validate(schemaPk, r, ListVals(S, S.db)) IN
         IF v # "ok" THEN Raise(S, v, "validate")
         ELSE [S EXCEPT !.heap = Append(@, r),
                        !.lists[tx.snap] = Append(@, Len(S.heap) + 1),
                        !.txn[t].ops = Append(@, [type |-> "insert",
                                                  record |-> Len(S.heap) + 1]),
                        !.txn[t].queued = @ + 1]

\* Transaction.insert(record).  The log entry holds the record object that
\* was appended to the snapshot, not a copy of it.
Transaction_insert(S, t, r) ==
    LET tx == S.txn[t] IN
    IF tx.committed THEN Raise(S, "TransactionError", "already committed")
    ELSE IF tx.rolled_back THEN Raise(S, "TransactionError", "rolled back")
    ELSE IF ~tx.active THEN Raise(S, "TransactionError", "not active")
    ELSE LET v == Schema_validate(schemaPk, r, ListVals(S, tx.snap)) IN
         IF v # "ok" THEN Raise(S, v, "validate")
         ELSE [S EXCEPT !.heap = Append(@, r),
                        !.lists[tx.snap] = Append(@, Len(S.heap) + 1),
                        !.txn[t].ops = Append(@, [type |-> "insert",
                                                  record |-> Len(S.heap) + 1]),
                        !.txn[t].queued = @ + 1]

\* A faulty variant of update() without the state checks.
Transaction_update_Unchecked(S, t, q, u) ==
    LET tx == S.txn[t]
        objs == S.lists[tx.snap]
        found == {objs[i] : i \in {j \in 1..Len(objs) : MatchesGet(S.heap[objs[j]], q)}}
    IN [S EXCEPT !.heap = [o \in 1..Len(S.heap) |->
                               IF o \in found THEN Merge(S.heap[o], u)
                               ELSE S.heap[o]],
                 !.txn[t].ops = Append(@, [type |-> "update", query |-> q,
                                           updates |-> u,
                                           affected |-> Cardinality(found)]),
                 !.txn[t].queued = @ + 1]

Transaction_update(S, t, q, u) ==
    LET tx == S.txn[t] IN
    IF ~tx.active THEN Raise(S, "TransactionError", "not active")
    ELSE IF tx.committed THEN Raise(S, "TransactionError", "already committed")
    ELSE IF tx.rolled_back THEN Raise(S, "TransactionError", "rolled back")
    ELSE LET objs == S.lists[tx.snap]
             found == {objs[i] : i \in {j \in 1..Len(objs) : MatchesGet(S.heap[objs[j]], q)}}
         IN [S EXCEPT !.heap = [o \in 1..Len(S.heap) |->
                                    IF o \in found THEN Merge(S.heap[o], u)
                                    ELSE S.heap[o]],
                      !.txn[t].ops = Append(@, [type |-> "update", query |-> q,
                                                updates |-> u,
                                                affected |-> Len(SelectBy(objs,
                                                    [j \in 1..Len(objs) |->
                                                        MatchesGet(S.heap[objs[j]], q)]))]),
                      !.txn[t].queued = @ + 1]

Transaction_delete(S, t, q) ==
    LET tx == S.txn[t] IN
    IF ~tx.active THEN Raise(S, "TransactionError", "not active")
    ELSE IF tx.committed THEN Raise(S, "TransactionError", "already committed")
    ELSE IF tx.rolled_back THEN Raise(S, "TransactionError", "rolled back")
    ELSE LET objs == S.lists[tx.snap]
             kept == SelectBy(objs, [j \in 1..Len(objs) |->
                                        ~MatchesGet(S.heap[objs[j]], q)])
         IN [S EXCEPT !.lists = Append(@, kept),
                      !.txn[t].snap = Len(S.lists) + 1,
                      !.txn[t].ops = Append(@, [type |-> "delete", query |-> q,
                                                affected |-> Len(objs) - Len(kept)]),
                      !.txn[t].queued = @ + 1]

Transaction_commit(S, t, mode) ==
    LET tx == S.txn[t] IN
    IF tx.committed THEN Raise(S, "TransactionError", "already committed")
    ELSE IF tx.rolled_back THEN Raise(S, "TransactionError", "rolled back")
    ELSE IF ~tx.active THEN Raise(S, "TransactionError", "not active")
    ELSE LET S1 == [S EXCEPT !.db = tx.snap, !.idx = tx.snap, !.cache = <<>>]
             S2 == Database_save(S1, mode)
         IN IF S2.err # "none"
            THEN Raise(S2, "TransactionError", "failed to commit")
            ELSE [S2 EXCEPT !.txn[t].committed = TRUE, !.txn[t].active = FALSE]

\* A faulty variant of rollback() that keeps the operation log.
Transaction_rollback_KeepLog(S, t) ==
    LET tx == S.txn[t] IN
    IF tx.committed THEN Raise(S, "TransactionError", "already committed")
    ELSE IF tx.rolled_back THEN S
    ELSE [S EXCEPT !.lists = Append(@, <<>>),
                   !.txn[t].snap = Len(S.lists) + 1,
                   !.txn[t].rolled_back = TRUE,
                   !.txn[t].active = FALSE]

Transaction_rollback(S, t) ==
    LET tx == S.txn[t] IN
    IF tx.committed THEN Raise(S, "TransactionError", "already committed")
    ELSE IF tx.rolled_back THEN S
    ELSE [S EXCEPT !.lists = Append(@, <<>>),
                   !.txn[t].snap = Len(S.lists) + 1,
                   !.txn[t].ops = <<>>,
                   !.txn[t].rolled_back = TRUE,
                   !.txn[t].active = FALSE]

\* A faulty variant of __exit__ that commits on every normal exit.
Transaction_exit_AlwaysCommit(S, t, exc, mode) ==
    IF exc # "none"
    THEN LET S1 == Transaction_rollback([S EXCEPT !.calls = Append(@, "rollback")], t)
         IN IF S1.err # "none" THEN S1 ELSE Raise(S1, exc, "in flight")
    ELSE Transaction_commit([S EXCEPT !.calls = Append(@, "commit")], t, mode)

\* Transaction.__exit__(exc_type, ...): exc is the error in flight ("none"
\* when the block ended normally).  The caller sees the error __exit__
\* raises itself, else the error in flight (return False re-raises it).
Transaction_exit(S, t, exc, mode) ==
    LET tx == S.txn[t] IN
    IF exc # "none"
    THEN LET S1 == Transaction_rollback([S EXCEPT !.calls = Append(@, "rollback")], t)
         IN IF S1.err # "none" THEN S1 ELSE Raise(S1, exc, "in flight")
    ELSE IF tx.active /\ ~tx.committed /\ ~tx.rolled_back
         THEN Transaction_commit([S EXCEPT !.calls = Append(@, "commit")], t, mode)
         ELSE S

-----------------------------------------------------------------------------
(* SchemaMigration: the operations run in place on the records they are    *)
(* given; a step that raises leaves the edits made so far.                 *)

MigrationResult(h, e) == [heap |-> h, err |-> e]

\* The empty dict; as a function it is the same value as the empty list.
EmptyDict == [k \in {} |-> None]

\* What datetime.now().isoformat() and str(uuid.uuid4()) give at one call.
\* datetime.now() is the naive local time: a later call can give the same,
\* a later or an earlier timestamp.  No two calls get the same UUID.
Timestamps ==
    << "2026-01-01T00:00:00.000001", "2026-01-01T00:00:00.000002",
       "2026-01-01T00:00:00.000003" >>

\* The k-th of the UUIDs uuid4 can give.
Uuid(k) == "00000000-0000-4000-8000-00000000000" \o ToString(k)

Reading(t, u) == [now |-> Timestamps[t], uuid |-> Uuid(u)]

\* The readings of a loop over n records that calls the clock and uuid4 at
\* the records at the positions D only (env[i] is the reading at the i-th
\* record): the clock gives any of the timestamps T at each call, uuid4
\* the UUIDs U, each once.
Readings(n, D, T, U) ==
    { [i \in 1..n |-> IF i \in D THEN Reading(ts[i], us[i]) ELSE Reading(1, 1)] :
        ts \in [D -> T],
        us \in { x \in [D -> U] : \A i, j \in D : i # j => x[i] # x[j] } }

\* The readings of a loop whose default does not look at them.
NoReadings(n) == [i \in 1..n |-> Reading(1, 1)]

\* The keyword strings of _resolve_default_value, as texts.
KeywordTexts ==
    { ToString(w) : w \in {"NOW()", "UUID()", "EMPTY_STRING()", "ZERO()", "FALSE()",
                           "EMPTY_LIST()", "EMPTY_DICT()"} }

\* isinstance(default_value, str) and default_value is one of the keywords
IsKeyword(d) == ToString(d) \in KeywordTexts

\* SchemaMigration._resolve_default_value(default_value), where e is what
\* the clock and uuid4 give at this call.
SchemaMigration_resolve_default_value(d, e) ==
    IF ~IsKeyword(d) THEN d
    ELSE CASE d = "NOW()"          -> e.now
           [] d = "UUID()"         -> e.uuid
           [] d = "EMPTY_STRING()" -> ""
           [] d = "ZERO()"         -> 0
           [] d = "FALSE()"        -> FALSE
           [] d = "EMPTY_LIST()"   -> <<>>
           [] d = "EMPTY_DICT()"   -> EmptyDict

\* add_field(field_name, default_value): the default is resolved once for
\* each record that gets the field; env[i] is the reading when the loop is
\* at the i-th record.
SchemaMigration_add_field(h, objs, f, d, env) ==
    IF f = "" THEN MigrationResult(h, "MigrationError")
    ELSE MigrationResult(
            [o \in 1..Len(h) |->
                IF (\E i \in 1..Len(objs) : objs[i] = o) /\ f \notin DOMAIN h[o]
                THEN Merge(h[o], [k \in {f} |->
                        SchemaMigration_resolve_default_value(d, env[IndexOf(objs, o)])])
                ELSE h[o]],
            "none")

SchemaMigration_remove_field(h, objs, f) ==
    IF f = "" THEN MigrationResult(h, "MigrationError")
    ELSE MigrationResult(
            [o \in 1..Len(h) |->
                IF (\E i \in 1..Len(objs) : objs[i] = o) /\ f \in DOMAIN h[o]
                THEN [k \in (DOMAIN h[o]) \ {f} |-> h[o][k]]
                ELSE h[o]],
            "none")

\* The loop of rename_field: records are renamed one by one, and the first
\* record holding both names raises with the earlier records renamed.
RECURSIVE RenameLoop(_, _, _, _)
RenameLoop(h, objs, old, new) ==
    IF objs = <<>> THEN MigrationResult(h, "none")
    ELSE LET o == Head(objs)
             r == h[o]
         IN IF old \notin DOMAIN r THEN RenameLoop(h, Tail(objs), old, new)
            ELSE IF new \in DOMAIN r THEN MigrationResult(h, "MigrationError")
            ELSE RenameLoop(
                    [h EXCEPT ![o] = [k \in ((DOMAIN r) \ {old}) \cup {new} |->
                                         IF k = new THEN r[old] ELSE r[k]]],
                    Tail(objs), old, new)

SchemaMigration_rename_field(h, objs, old, new) ==
    IF old = "" \/ new = "" THEN MigrationResult(h, "MigrationError")
    ELSE IF old = new THEN MigrationResult(h, "MigrationError")
    ELSE RenameLoop(h, objs, old, new)

\* field_name not in record or record[field_name] is None
IsMissing(r, f) == f \notin DOMAIN r \/ ToString(r[f]) = ToString(None)

\* set_default(field_name, default_value): the default is resolved once for
\* each record that lacks the field or holds None in it.
SchemaMigration_set_default(h, objs, f, d, env) ==
    IF f = "" THEN MigrationResult(h, "MigrationError")
    ELSE MigrationResult(
            [o \in 1..Len(h) |->
                IF (\E i \in 1..Len(objs) : objs[i] = o) /\ IsMissing(h[o], f)
                THEN Merge(h[o], [k \in {f} |->
                        SchemaMigration_resolve_default_value(d, env[IndexOf(objs, o)])])
                ELSE h[o]],
            "none")

\* The readings of a migration call: those the step carries, if any.
StepReadings(st, n) == IF "env" \in DOMAIN st THEN st.env ELSE NoReadings(n)

MigrationStep(h, objs, st) ==
    CASE st.op = "add_field"    ->
            SchemaMigration_add_field(h, objs, st.f, st.d, StepReadings(st, Len(objs)))
      [] st.op = "remove_field" -> SchemaMigration_remove_field(h, objs, st.f)
      [] st.op = "rename_field" -> SchemaMigration_rename_field(h, objs, st.old, st.new)
      [] st.op = "set_default"  ->
            SchemaMigration_set_default(h, objs, st.f, st.d, StepReadings(st, Len(objs)))

\* The caller's callback: its migration calls in order; the first one that
\* raises ends it.
RECURSIVE RunSteps(_, _, _)
RunSteps(h, objs, steps) ==
    IF steps = <<>> THEN MigrationResult(h, "none")
    ELSE LET R == MigrationStep(h, objs, Head(steps))
         IN IF R.err # "none" THEN R ELSE RunSteps(R.heap, objs, Tail(steps))

AddS == [op |-> "add_field", f |-> "s", d |-> 1]
RemoveV == [op |-> "remove_field", f |-> "v"]
RenameVId == [op |-> "rename_field", old |-> "v", new |-> "id"]
DefaultV == [op |-> "set_default", f |-> "v", d |-> 2]
AddEmpty == [op |-> "add_field", f |-> "", d |-> 1]

\* The callbacks the callers pass to migrate_schema: `raises` is a raise
\* of the callback's own after its steps.
Callbacks ==
    << [steps |-> <<AddS>>, raises |-> FALSE],
       [steps |-> <<AddS>>, raises |-> TRUE],
       [steps |-> <<RemoveV>>, raises |-> FALSE],
       [steps |-> <<DefaultV, RenameVId>>, raises |-> FALSE],
       [steps |-> <<AddS, AddEmpty>>, raises |-> FALSE],
       [steps |-> <<>>, raises |-> TRUE] >>

ZeroV == [op |-> "set_default", f |-> "v", d |-> "ZERO()"]
StampTs == [op |-> "add_field", f |-> "ts", d |-> "NOW()"]
TagUid == [op |-> "add_field", f |-> "uid", d |-> "UUID()"]

\* The same callbacks, one more that removes a field and then raises, and
\* three whose defaults are keywords.
MoreCallbacks ==
    Callbacks \o << [steps |-> <<RemoveV>>, raises |-> TRUE],
                    [steps |-> <<ZeroV>>, raises |-> FALSE],
                    [steps |-> <<StampTs>>, raises |-> FALSE],
                    [steps |-> <<TagUid>>, raises |-> FALSE] >>

\* The callback that removes a field and then raises.
RemoveThenRaise == Len(Callbacks) + 1


\* A migration call whose default is resolved from the clock or uuid4.
DrawsReading(st) ==
    "d" \in DOMAIN st /\ IsKeyword(st.d) /\ st.d \in {"NOW()", "UUID()"}

\* The callbacks whose defaults are keywords, and those that draw readings
\* (a callback here has one migration call that draws readings at most).
KeywordCallbacks == (Len(Callbacks) + 2)..Len(MoreCallbacks)
ReadingCallbacks ==
    { i \in 1..Len(MoreCallbacks) :
        \E k \in 1..Len(MoreCallbacks[i].steps) : DrawsReading(MoreCallbacks[i].steps[k]) }

\* The positions in objs of the records at which the callback's call that
\* draws readings resolves its default: the records that call, which runs
\* after the calls before it, gives the field.
CallbackDrawn(h, objs, cb) ==
    LET k == CHOOSE i \in 1..Len(cb.steps) : DrawsReading(cb.steps[i])
        st == cb.steps[k]
        R == RunSteps(h, objs, SubSeq(cb.steps, 1, k - 1))
    IN IF R.err # "none" THEN {}
       ELSE { i \in 1..Len(objs) :
                /\ IndexOf(objs, objs[i]) = i
                /\ IF st.op = "add_field" THEN st.f \notin DOMAIN R.heap[objs[i]]
                                          ELSE IsMissing(R.heap[objs[i]], st.f) }

\* The readings the callback cb can get when run now on the list objs: the
\* clock gives any timestamp, whatever the records hold, and uuid4 gives
\* UUIDs that no record holds, in memory (h) or in the contents of the
\* files (the first ones of those, one for each call).
CallbackReadings(h, objs, contents, cb) ==
    LET D == CallbackDrawn(h, objs, cb)
        of(L) == UNION { {ToString(L[o][k]) : k \in DOMAIN L[o]} : o \in 1..Len(L) }
        held == of(h) \cup UNION { IF c.k = "enc" THEN of(c.recs) ELSE {} : c \in contents }
        T == 1..Len(Timestamps)
        free == { k \in 1..(Cardinality(held) + Cardinality(D)) : ToString(Uuid(k)) \notin held }
        U == { k \in free : Cardinality({j \in free : j < k}) < Cardinality(D) }
    IN Readings(Len(objs), D, T, U)

\* The callback as it runs when its loops get the readings env.
Stamped(cb, env) ==
    [cb EXCEPT !.steps =
        [i \in 1..Len(cb.steps) |->
            IF DrawsReading(cb.steps[i])
            THEN [k \in (DOMAIN cb.steps[i]) \cup {"env"} |->
                     IF k = "env" THEN env ELSE cb.steps[i][k]]
            ELSE cb.steps[i]]]

\* SchemaVersion._init_metadata(): the ledger at version 0 (the timestamps
\* are left out).
FreshLedger == [version |-> 0, migrations |-> <<>>]

\* How a save of the ledger file ends: it returns, or open() raises and the
\* file is as before, or json.dump raises after open() truncated the file.
LedgerModes == {"ok", "open", "dump"}

\* SchemaVersion._save_metadata(): open(file, 'w') and json.dump.
SchemaVersion_save_metadata(S, lmode) ==
    IF lmode = "open" THEN Raise(S, "OSError", "save ledger")
    ELSE IF lmode = "dump" THEN Raise([S EXCEPT !.metaFile = Partial], "OSError", "save ledger")
    ELSE [S EXCEPT !.metaFile = S.meta]

\* How the read of the ledger file in _load_metadata ends: open() and
\* json.load return the ledger, or one of them raises (an I/O error; of a
\* file a save left cut short json.load always raises).
LedgerReads == {"ok", "error"}

\* SchemaVersion._load_metadata(), as SchemaVersion.__init__ runs it: the
\* ledger the file holds; when the read raises, a fresh ledger, saved over
\* the file by _save_metadata_internal, whose error (lmode) is raised again
\* and leaves __init__ without a ledger: `meta` is then as before.
SchemaVersion_load_metadata(S, rd, lmode) ==
    IF S.metaFile # Partial /\ rd = "ok"
    THEN [S EXCEPT !.meta = S.metaFile]
    ELSE LET saved == SchemaVersion_save_metadata([S EXCEPT !.meta = FreshLedger], lmode)
         IN IF saved.err = "none" THEN saved ELSE [saved EXCEPT !.meta = S.meta]

\* A faulty variant of increment_version() that records the new version as
\* the entry's from_version.
SchemaVersion_increment_version_Off(S, name, lmode) ==
    LET m == [version |-> S.meta.version + 1,
              migrations |-> Append(S.meta.migrations,
                                    [from_version |-> S.meta.version + 1,
                                     to_version |-> S.meta.version + 1,
                                     name |-> name])]
    IN SchemaVersion_save_metadata([S EXCEPT !.meta = m], lmode)

\* SchemaVersion.increment_version(name): the ledger in memory is changed
\* first, then saved.
SchemaVersion_increment_version(S, name, lmode) ==
    LET m == [version |-> S.meta.version + 1,
              migrations |-> Append(S.meta.migrations,
                                    [from_version |-> S.meta.version,
                                     to_version |-> S.meta.version + 1,
                                     name |-> name])]
    IN SchemaVersion_save_metadata([S EXCEPT !.meta = m], lmode)

\* SchemaVersion.reset()
SchemaVersion_reset(S, lmode) ==
    SchemaVersion_save_metadata([S EXCEPT !.meta = FreshLedger], lmode)

\* A faulty variant of migrate_schema() that leaves the query cache as it is.
Database_migrate_schema_KeepCache(S, cb, name, lmode, mode) ==
    LET R == RunSteps(S.heap, S.lists[S.db], cb.steps)
        S1 == [S EXCEPT !.heap = R.heap]
    IN IF R.err # "none" THEN Raise(S1, R.err, "migration")
       ELSE IF cb.raises THEN Raise(S1, "ValueError", "callback")
       ELSE LET S2 == SchemaVersion_increment_version(S1, name, lmode)
            IN IF S2.err # "none" THEN S2
               ELSE Database_save(S2, mode)

\* Database.migrate_schema(callback, name): the callback edits the live
\* records, then the version is incremented (and the ledger saved), the
\* cache emptied and the list saved; the first error ends the call.
Database_migrate_schema(S, cb, name, lmode, mode) ==
    LET R == RunSteps(S.heap, S.lists[S.db], cb.steps)
        S1 == [S EXCEPT !.heap = R.heap]
    IN IF R.err # "none" THEN Raise(S1, R.err, "migration")
       ELSE IF cb.raises THEN Raise(S1, "ValueError", "callback")
       ELSE LET S2 == SchemaVersion_increment_version(S1, name, lmode)
            IN IF S2.err # "none" THEN S2
               ELSE Database_save([S2 EXCEPT !.cache = <<>>], mode)

-----------------------------------------------------------------------------
(* Database.__init__ and Database.load: a new store instance on the files. *)

\* How Database.load's read of the store file ends: it returns the text, or
\* it raises (the file cannot be read or decoded as UTF-8).
LoadModes == {"ok", "unreadable"}

\* Database.load(): the records, or RuntimeError.
Database_load(S, lmode) ==
    IF S.file = Absent THEN [S EXCEPT !.ret = Records(<<>>)]
    ELSE IF lmode = "unreadable" THEN Raise(S, "RuntimeError", "corrupt")
    ELSE LET raw == Storage_read(S).ret IN
         IF raw = Text(<<>>) THEN [S EXCEPT !.ret = Records(<<>>)]
         ELSE IF DecryptOk(raw) THEN [S EXCEPT !.ret = Records(Decrypt(raw))]
         ELSE Raise(S, "RuntimeError", "corrupt")

\* The WAL check of __init__: a WAL is recovered when one exists; a failed
\* recovery is only logged.
Database_init_recover(S, rmode, n) ==
    IF Storage_has_wal(S)
    THEN [Storage_recover_from_wal(S, rmode, n) EXCEPT !.calls = Append(@, "recover_from_wal")]
    ELSE S

\* A faulty variant of the end of __init__ that starts with an empty store
\* when load() raises.
Database_init_data_Lenient(S, L) ==
    LET recs == IF L.err = "none" THEN L.ret.recs ELSE <<>>
    IN [S EXCEPT !.heap = recs, !.lists = << [i \in 1..Len(recs) |-> i] >>,
                 !.db = 1, !.idx = NoList, !.cache = <<>>,
                 !.qc = QueryCache_init(TRUE, DefaultCacheSize),
                 !.txn = [t \in Txns |-> NoTxn],
                 !.ret = NoValue]

\* The end of __init__: self.data = self.load(), where L is the outcome of
\* load().  When load raises there is no instance: the record list is left
\* empty and `err` tells.
Database_init_data(S, L) ==
    LET recs == IF L.err = "none" THEN L.ret.recs ELSE <<>>
    IN [S EXCEPT !.heap = recs, !.lists = << [i \in 1..Len(recs) |-> i] >>,
                 !.db = 1, !.idx = NoList, !.cache = <<>>,
                 !.qc = QueryCache_init(TRUE, DefaultCacheSize),
                 !.txn = [t \in Txns |-> NoTxn],
                 !.err = L.err, !.msg = L.msg, !.ret = NoValue]

\* Database.__init__: the ledger is loaded (rd, smode), a WAL is recovered
\* when one exists, then the records are loaded.  An error of the ledger
\* load ends __init__ before the WAL check.
Database_init(S, rd, smode, rmode, n, lmode) ==
    LET M == SchemaVersion_load_metadata(S, rd, smode)
        R == Database_init_recover(M, rmode, n)
    IN IF M.err # "none" THEN Database_init_data(M, M)
       ELSE Database_init_data(R, Database_load(R, lmode))

-----------------------------------------------------------------------------
(* Installing the state after a call: the object store is renumbered in    *)
(* the order db.data, Indexer.data, the transactions' snapshots, the cache *)
(* entries; objects no reference reaches are dropped.                      *)

\* The list objects some reference reaches, in traversal order.
ListOrder(S) ==
    LET roots == <<S.db, S.idx>> \o [u \in 1..Cardinality(Txns) |-> S.txn[u].snap]
    IN Distinct(SelectBy(roots, [i \in 1..Len(roots) |-> roots[i] # NoList]), <<>>)

\* The record objects the insert entries of an operation log hold.
OpRefs(ops) ==
    LET ins == SelectBy(ops, [i \in 1..Len(ops) |-> ops[i].type = "insert"])
    IN [i \in 1..Len(ins) |-> ins[i].record]

\* The record objects some reference reaches, in traversal order.
ObjectOrder(S, lorder) ==
    Distinct(Flatten([k \in 1..Len(lorder) |-> S.lists[lorder[k]]]) \o
             Flatten([k \in 1..Len(S.cache) |-> S.cache[k].val]) \o
             Flatten([u \in 1..Cardinality(Txns) |-> OpRefs(S.txn[u].ops)]), <<>>)

Renumbered(s, order) == [j \in 1..Len(s) |-> IndexOf(order, s[j])]

InstallAs(S, lorder, oorder, op, t, exc) ==
    /\ heap' = [k \in 1..Len(oorder) |-> S.heap[oorder[k]]]
    /\ lists' = [k \in 1..Len(lorder) |-> Renumbered(S.lists[lorder[k]], oorder)]
    /\ dbData' = IndexOf(lorder, S.db)
    /\ idxData' = IF S.idx = NoList THEN NoList ELSE IndexOf(lorder, S.idx)
    /\ cache' = [k \in 1..Len(S.cache) |->
                    [key |-> S.cache[k].key,
                     val |-> Renumbered(S.cache[k].val, oorder)]]
    /\ qc' = S.qc
    /\ file' = S.file
    /\ wal' = S.wal
    /\ tmp' = S.tmp
    /\ txn' = [u \in Txns |->
                  [S.txn[u] EXCEPT
                      !.snap = IF @ = NoList THEN NoList ELSE IndexOf(lorder, @),
                      !.ops = [i \in 1..Len(@) |->
                                  IF @[i].type = "insert"
                                  THEN [@[i] EXCEPT !.record = IndexOf(oorder, @)]
                                  ELSE @[i]]]]
    /\ meta' = S.meta
    /\ metaFile' = S.metaFile
    /\ res' = [op |-> op, t |-> t, err |-> S.err, msg |-> S.msg,
               exc |-> exc, calls |-> S.calls, arg |-> S.arg, ret |-> S.ret]

InstallIn(S, lorder, op, t, exc) ==
    InstallAs(S, lorder, ObjectOrder(S, lorder), op, t, exc)

Install(S, op, t, exc) == InstallIn(S, ListOrder(S), op, t, exc)

-----------------------------------------------------------------------------
(* The calls the caller makes.                                             *)

\* The errors a caller's block raises by itself.
BlockErrors == {"ValueError"}

IsOpen(t) == txn[t].active /\ ~txn[t].committed /\ ~txn[t].rolled_back

SchemaAddPk ==
    /\ ~schemaPk
    /\ schemaPk' = TRUE
    /\ res' = [op |-> "add_field", t |-> 0, err |-> "none", msg |-> "",
               exc |-> "none", calls |-> <<>>, arg |-> NoValue, ret |-> NoValue]
    /\ UNCHANGED <<heap, lists, dbData, idxData, cache, qc, file, wal, tmp, txn,
                   meta, metaFile>>

DbInsert(r, mode) ==
    /\ Len(lists[dbData]) < MaxLen
    /\ Install([Database_insert(Cur, r, mode) EXCEPT !.arg = [record |-> r]],
               "db.insert", 0, "none")
    /\ UNCHANGED schemaPk

DbDelete(q, mode) ==
    /\ Install([Database_delete(Cur, q, mode) EXCEPT !.arg = [query |-> q]], "db.delete", 0, "none")
    /\ UNCHANGED schemaPk

\* The counters are bounded: a call that counts is made MaxGets times.
\* db.save() called by the caller; `arg` keeps how the write ends.
DbSave(mode) ==
    /\ mode \in {"tmp_kept", "replace_kept"} => tmp < MaxTmp
    /\ Install([Database_save(Cur, mode) EXCEPT !.arg = [write |-> mode]], "db.save", 0, "none")
    /\ UNCHANGED schemaPk

DbFind(q) ==
    /\ qc.hits + qc.misses < MaxGets
    /\ Install([Database_find(Cur, q) EXCEPT !.arg = [query |-> q]], "db.find", 0, "none")
    /\ UNCHANGED schemaPk

DbUpdate(q, u, mode) ==
    /\ qc.hits + qc.misses < MaxGets
    /\ Install([Database_update(Cur, q, u, mode)
                    EXCEPT !.arg = [query |-> q, patch |-> u]],
               "db.update", 0, "none")
    /\ UNCHANGED schemaPk

\* db.enable_cache() and db.disable_cache()
DbEnableCache ==
    /\ Install(QueryCache_enable(Cur), "db.enable_cache", 0, "none")
    /\ UNCHANGED schemaPk

DbDisableCache ==
    /\ Install(QueryCache_disable(Cur), "db.disable_cache", 0, "none")
    /\ UNCHANGED schemaPk

\* The calls made on a QueryCache object; the result that set() is given is
\* a list of record objects.
CacheGet(q) ==
    /\ qc.hits + qc.misses < MaxGets
    /\ Install([QueryCache_get(Cur, q) EXCEPT !.arg = [query |-> q]], "get", 0, "none")
    /\ UNCHANGED schemaPk

CacheSet(q, result) ==
    /\ Install([QueryCache_set(Cur, q, result) EXCEPT
                    !.arg = [query |-> q,
                             result |-> [j \in 1..Len(result) |-> heap[result[j]]]]],
               "set", 0, "none")
    /\ UNCHANGED schemaPk

CacheInvalidate ==
    /\ Install(QueryCache_invalidate(Cur), "invalidate", 0, "none")
    /\ UNCHANGED schemaPk

CacheClear ==
    /\ Install(QueryCache_clear(Cur), "clear", 0, "none")
    /\ UNCHANGED schemaPk

CacheEnable ==
    /\ Install(QueryCache_enable(Cur), "enable", 0, "none")
    /\ UNCHANGED schemaPk

CacheDisable ==
    /\ Install(QueryCache_disable(Cur), "disable", 0, "none")
    /\ UNCHANGED schemaPk

CacheResetStats ==
    /\ Install(QueryCache_reset_stats(Cur), "reset_stats", 0, "none")
    /\ UNCHANGED schemaPk

\* db.migrate_schema(MoreCallbacks[i], i): the migration is named after its
\* callback; `arg` keeps the records the callback is given.
Migrate(i, lmode, mode) ==
    /\ meta.version < MaxVersion
    /\ \E env \in IF i \in ReadingCallbacks
                    THEN CallbackReadings(heap, lists[dbData], {file, wal}, MoreCallbacks[i])
                    ELSE {NoReadings(Len(lists[dbData]))} :
           Install([Database_migrate_schema(Cur,
                        IF i \in ReadingCallbacks THEN Stamped(MoreCallbacks[i], env)
                                                  ELSE MoreCallbacks[i],
                        i, lmode, mode)
                        EXCEPT !.arg = Records(Live)],
                   "db.migrate_schema", i, "none")
    /\ UNCHANGED schemaPk

\* Storage.write(c), Storage.read() and Storage.recover_from_wal() called
\* on the Storage object; `arg` keeps the content written and how the
\* recovery ends.
StorageWrite(c, mode) ==
    /\ mode \in {"tmp_kept", "replace_kept"} => tmp < MaxTmp
    /\ Install([Storage_write(Cur, c, mode) EXCEPT !.arg = c], "write", 0, "none")
    /\ UNCHANGED schemaPk

StorageRead ==
    /\ Install(Storage_read(Cur), "read", 0, "none")
    /\ UNCHANGED schemaPk

StorageRecover(rmode, n) ==
    /\ Install([Storage_recover_from_wal(Cur, rmode, n)
                    EXCEPT !.arg = [recover |-> rmode, cut |-> n]],
               "recover_from_wal", 0, "none")
    /\ UNCHANGED schemaPk

\* The process dies inside Storage.write(c), leaving the files as they are.
\* `arg` keeps the store file before the write, the content and the point;
\* the memory of the dead process is not looked at again.
CrashInWrite(c, point, n) ==
    /\ point = "tmp" => tmp < MaxTmp
    /\ Install([Storage_write_crash(Cur, c, point, n)
                    EXCEPT !.arg = [a |-> file, b |-> c, point |-> point]],
               "crash", 0, "none")
    /\ UNCHANGED schemaPk

\* Database(path, password): a new instance on the files.
Startup(rd, smode, rmode, n, lmode) ==
    /\ Install([Database_init(Cur, rd, smode, rmode, n, lmode)
                    EXCEPT !.arg = [ledger |-> rd, save |-> smode,
                                    recover |-> rmode, cut |-> n, load |-> lmode]],
               "startup", 0, "none")
    /\ schemaPk' = FALSE

\* SchemaVersion.increment_version, reset, and a reload by a new
\* SchemaVersion object on the ledger file.
LedgerIncrement(name, lmode) ==
    /\ meta.version < MaxVersion
    /\ Install(SchemaVersion_increment_version(Cur, name, lmode),
               "increment_version", 0, "none")
    /\ UNCHANGED schemaPk

LedgerReset(lmode) ==
    /\ Install(SchemaVersion_reset(Cur, lmode), "reset", 0, "none")
    /\ UNCHANGED schemaPk

LedgerReload(rd, lmode) ==
    /\ Install([SchemaVersion_load_metadata(Cur, rd, lmode)
                    EXCEPT !.arg = [ledger |-> rd, save |-> lmode]],
               "reload", 0, "none")
    /\ UNCHANGED schemaPk

NewTxn(t) ==
    /\ ~txn[t].made
    /\ Install(Transaction_init(Cur, t), "db.transaction", t, "none")
    /\ UNCHANGED schemaPk

Enter(t) ==
    /\ txn[t].made
    /\ Install(Transaction_enter(Cur, t), "enter", t, "none")
    /\ UNCHANGED schemaPk

TxnInsert(t, r) ==
    /\ txn[t].made
    /\ IsOpen(t) => Len(lists[txn[t].snap]) < MaxLen /\ Len(txn[t].ops) < MaxOps
    /\ Install([Transaction_insert(Cur, t, r) EXCEPT !.arg = [record |-> r]],
               "insert", t, "none")
    /\ UNCHANGED schemaPk

TxnUpdate(t, q, u) ==
    /\ txn[t].made
    /\ IsOpen(t) => Len(txn[t].ops) < MaxOps
    /\ Install(Transaction_update(Cur, t, q, u), "update", t, "none")
    /\ UNCHANGED schemaPk

TxnDelete(t, q) ==
    /\ txn[t].made
    /\ IsOpen(t) => Len(txn[t].ops) < MaxOps
    /\ Install(Transaction_delete(Cur, t, q), "delete", t, "none")
    /\ UNCHANGED schemaPk

Commit(t, mode) ==
    /\ txn[t].made
    /\ Install(Transaction_commit(Cur, t, mode), "commit", t, "none")
    /\ UNCHANGED schemaPk

Rollback(t) ==
    /\ txn[t].made
    /\ Install(Transaction_rollback(Cur, t), "rollback", t, "none")
    /\ UNCHANGED schemaPk

Exit(t, exc, mode) ==
    /\ txn[t].made
    /\ Install(Transaction_exit(Cur, t, exc, mode), "exit", t, exc)
    /\ UNCHANGED schemaPk

-----------------------------------------------------------------------------
(* The store after construction on a path with no files: Database.__init__ *)
(* finds no WAL and no store file, load() gives the empty list, and        *)
(* SchemaVersion creates its side file at version 0.                       *)

Init ==
    /\ heap = <<>>
    /\ lists = << <<>> >>
    /\ dbData = 1
    /\ idxData = NoList
    /\ cache = <<>>
    /\ qc = QueryCache_init(TRUE, DefaultCacheSize)
    /\ file = Absent
    /\ wal = Absent
    /\ tmp = 0
    /\ txn = [t \in Txns |-> NoTxn]
    /\ meta = [version |-> 0, migrations |-> <<>>]
    /\ metaFile = [version |-> 0, migrations |-> <<>>]
    /\ schemaPk = FALSE
    /\ res = [op |-> "init", t |-> 0, err |-> "none", msg |-> "",
              exc |-> "none", calls |-> <<>>, arg |-> NoValue, ret |-> NoValue]

Next ==
    \/ \E r \in {[v |-> 1]} : DbInsert(r, "ok")
    \/ NewTxn(1)
    \/ Enter(1)
    \/ \E r \in {[id |-> 1, v |-> 1]} : TxnInsert(1, r)
    \/ \E q \in {<< <<"v", 1>> >>}, u \in Patches : TxnUpdate(1, q, u)
    \/ \E q \in {<< <<"v", 1>> >>} : TxnDelete(1, q)
    \/ \E mode \in {"ok", "replace"} : Commit(1, mode)
    \/ Rollback(1)
    \/ \E exc \in {"none"} \cup BlockErrors, mode \in {"ok", "replace"} : Exit(1, exc, mode)

Spec == Init /\ [][Next]_vars

-----------------------------------------------------------------------------
(* The store after construction on a path whose store file holds the       *)
(* encrypted list L: load() decrypts it into fresh record objects.  The    *)
(* caller may have configured the primary key before the first call.       *)

InitLists ==
    { <<>>, <<[v |-> 1]>>, <<[v |-> 2]>>, <<[id |-> 1, v |-> 1]>>,
      <<[id |-> 2, v |-> 1]>>, <<[id |-> 2, v |-> 1], [v |-> 1]>>,
      <<[v |-> 1], [id |-> 1, v |-> 2]>> }

InitLoaded(L, pk) ==
    /\ heap = L
    /\ lists = << [i \in 1..Len(L) |-> i] >>
    /\ dbData = 1
    /\ idxData = NoList
    /\ cache = <<>>
    /\ qc = QueryCache_init(TRUE, DefaultCacheSize)
    /\ file = Encrypt(L)
    /\ wal = Absent
    /\ tmp = 0
    /\ txn = [t \in Txns |-> NoTxn]
    /\ meta = [version |-> 0, migrations |-> <<>>]
    /\ metaFile = [version |-> 0, migrations |-> <<>>]
    /\ schemaPk = pk
    /\ res = [op |-> "init", t |-> 0, err |-> "none", msg |-> "",
              exc |-> "none", calls |-> <<>>, arg |-> NoValue, ret |-> NoValue]

-----------------------------------------------------------------------------
(* A transaction scope whose block inserts and then raises:                *)
(*     with db.transaction() as txn:                                       *)
(*         txn.insert(r1); ...; txn.insert(rN); raise                      *)
(* The error in flight is the block's own, or the one an insert raised.    *)

InitScope == \E L \in InitLists, pk \in BOOLEAN : InitLoaded(L, pk)

ScopeCreate == res.op = "init" /\ NewTxn(1)

ScopeEnter == res.op = "db.transaction" /\ Enter(1)

ScopeInsert ==
    /\ IsOpen(1)
    /\ res.err = "none"
    /\ \E r \in InsRecs : TxnInsert(1, r)

ScopeRaise ==
    /\ IsOpen(1)
    /\ \E exc \in (BlockErrors \cup {res.err}) \ {"none"} : Exit(1, exc, "ok")

NextScopeFail == ScopeCreate \/ ScopeEnter \/ ScopeInsert \/ ScopeRaise

SpecScopeFail == InitScope /\ [][NextScopeFail]_vars

\* C1: a scope that performs N inserts and then raises leaves the live
\* record list equal to the list L it started from, with none of the N
\* records in it, and the transaction rolled back.
C1_FailedScopeLeavesStore ==
    (res.op = "exit" /\ res.exc # "none")
        => /\ Live = txn[1].base
           /\ txn[1].rolled_back /\ ~txn[1].active /\ ~txn[1].committed

C1_Witness ==
    /\ res.op = "exit" /\ res.exc # "none"
    /\ txn[1].queued = 2
    /\ Len(Live) = 0
    /\ txn[1].rolled_back

-----------------------------------------------------------------------------
(* Properties of the transaction layer, checked under Spec: one            *)
(* transaction object beside direct inserts into the store, with commits   *)
(* whose durable write may fail.                                           *)

\* The life-cycle state the flags of transaction t stand for.
TxnState(t) ==
    IF ~txn[t].made THEN "none"
    ELSE IF txn[t].committed THEN "committed"
    ELSE IF txn[t].rolled_back THEN "rolledBack"
    ELSE IF txn[t].active THEN "active"
    ELSE "pending"

\* The start-time copy with the logged operations applied in call order.
RECURSIVE Replay(_, _)
Replay(L, ops) ==
    IF ops = <<>> THEN L
    ELSE LET o == Head(ops) IN
         Replay(
            CASE o.type = "insert" -> Append(L, o.record)
              [] o.type = "update" ->
                    [i \in 1..Len(L) |-> IF MatchesGet(L[i], o.query)
                                         THEN Merge(L[i], o.updates) ELSE L[i]]
              [] o.type = "delete" ->
                    SelectBy(L, [i \in 1..Len(L) |-> ~MatchesGet(L[i], o.query)]),
            Tail(ops))

\* The operation log of t with each inserted record's present value.
OpsOf(t) ==
    [i \in 1..Len(txn[t].ops) |->
        IF txn[t].ops[i].type = "insert"
        THEN [type |-> "insert", record |-> heap[txn[t].ops[i].record]]
        ELSE txn[t].ops[i]]

OnlyInserts(ops) == \A i \in 1..Len(ops) : ops[i].type = "insert"

CommitReturned(t) ==
    /\ res.t = t
    /\ res.err = "none"
    /\ res.op = "commit" \/ (res.op = "exit" /\ res.calls = <<"commit">>)

StoreVars == <<heap, lists, dbData, idxData, cache, qc, file, wal, tmp, meta, metaFile>>

\* C2: while a transaction is active and not committed, its insert, update
\* and delete calls leave the live record list as it was; the queued changes
\* show in the live list only at commit, and a committed transaction of N
\* inserts has added exactly N records.
C2_Isolation ==
    [][\A t \in Txns :
        /\ (txn[t].active /\ ~txn[t].committed /\ res'.t = t
                /\ res'.op \in {"insert", "update", "delete"})
            => Live' = Live
        /\ (txn[t].active /\ res'.t = t /\ res'.err = "none"
                /\ (res'.op = "commit" \/ res'.calls = <<"commit">>)
                /\ OnlyInserts(txn[t].ops))
            => Len(Live') = Len(txn[t].base) + Len(txn[t].ops)]_vars

\* C3: when commit() returns normally, the live record list is the
\* transaction's snapshot, which is the start-time copy with the queued
\* operations applied in call order; the cache is empty, the store file
\* decodes to that list, and the transaction is committed and not active.
C3_CommitPostcondition ==
    \A t \in Txns :
        CommitReturned(t)
            => /\ Live = ValsOf(heap, lists, txn[t].snap)
               /\ Live = Replay(txn[t].base, OpsOf(t))
               /\ cache = <<>>
               /\ DecryptOk(file) /\ Decrypt(file) = Live
               /\ txn[t].committed /\ ~txn[t].active

LifeCycleAsClaimed ==
    { <<"none", "pending">>, <<"pending", "active">>,
      <<"active", "committed">>, <<"active", "rolledBack">> }

\* C4 as claimed: the only state changes are creation in pending,
\* pending -> active, active -> committed and active -> rolledBack.
C4_LifeCycleAsClaimed ==
    [][\A t \in Txns :
        \/ TxnState(t)' = TxnState(t)
        \/ <<TxnState(t), TxnState(t)'>> \in LifeCycleAsClaimed]_vars

\* C4 (amended): a transaction starts in pending and its only state changes
\* are pending -> active (enter), active -> committed (commit, or exit
\* without error), active -> rolledBack (rollback, or exit with an error)
\* and pending -> rolledBack (rollback, or exit with an error, before any
\* enter); committed and rolledBack are never left.
C4_LifeCycle ==
    [][\A t \in Txns :
        \/ TxnState(t)' = TxnState(t)
        \/ /\ res'.t = t
           /\ \/ TxnState(t) = "none" /\ TxnState(t)' = "pending"
                    /\ res'.op = "db.transaction"
              \/ TxnState(t) = "pending" /\ TxnState(t)' = "active"
                    /\ res'.op = "enter"
              \/ TxnState(t) = "active" /\ TxnState(t)' = "committed"
                    /\ res'.op \in {"commit", "exit"}
              \/ TxnState(t) \in {"active", "pending"} /\ TxnState(t)' = "rolledBack"
                    /\ res'.op \in {"rollback", "exit"}]_vars

\* A committed transaction was entered again and is still committed.
C4_Witness ==
    /\ res.op = "enter" /\ res.t = 1
    /\ TxnState(1) = "committed"
    /\ txn[1].active

\* C5: insert, update, delete and commit on a transaction that is not
\* active, or is committed or rolled back, raise TransactionError and change
\* nothing: not the transaction, the store, the cache or the files.
C5_ClosedTransactionRejects ==
    [][\A t \in Txns :
        (txn[t].made /\ ~IsOpen(t) /\ res'.t = t
            /\ res'.op \in {"insert", "update", "delete", "commit"})
        => /\ res'.err = "TransactionError"
           /\ UNCHANGED <<StoreVars, txn>>]_vars

C5_Witness ==
    /\ res.op = "update" /\ res.t = 1
    /\ res.err = "TransactionError"
    /\ txn[1].committed /\ txn[1].active
    /\ Len(Live) > 0

\* C6: rollback() on an active transaction empties its snapshot and its
\* operation log and makes it rolledBack, and changes neither the live
\* record list nor the files; on a rolled-back transaction it returns and
\* changes nothing; on a committed one it raises TransactionError and
\* changes nothing.
C6_Rollback ==
    [][\A t \in Txns :
        (txn[t].made /\ res'.op = "rollback" /\ res'.t = t)
        => IF txn[t].committed
           THEN res'.err = "TransactionError" /\ UNCHANGED <<StoreVars, txn>>
           ELSE IF txn[t].rolled_back
           THEN res'.err = "none" /\ UNCHANGED <<StoreVars, txn>>
           ELSE txn[t].active
                => /\ res'.err = "none"
                   /\ txn'[t].rolled_back /\ ~txn'[t].active /\ ~txn'[t].committed
                   /\ txn'[t].ops = <<>>
                   /\ lists'[txn'[t].snap] = <<>>
                   /\ txn'[t].snap # dbData'
                   /\ Live' = Live
                   /\ UNCHANGED <<cache, file, wal>>]_vars

C6_Witness ==
    /\ res.op = "rollback" /\ res.t = 1 /\ res.err = "none"
    /\ txn[1].rolled_back
    /\ txn[1].queued = 2
    /\ Len(Live) > 0

\* C7: when an error propagates out of a transaction block, the exit rolls
\* back and the caller sees that same error, whatever state the transaction
\* is in when the block raises.
C7_ExitReraisesOriginal ==
    (res.op = "exit" /\ res.exc # "none") => res.err = res.exc

\* C8: exit without an error commits once when the transaction is active
\* and neither committed nor rolled back; otherwise it calls neither commit
\* nor rollback, raises nothing and changes nothing.
C8_NormalExit ==
    [][\A t \in Txns :
        (txn[t].made /\ res'.op = "exit" /\ res'.t = t /\ res'.exc = "none")
        => IF IsOpen(t)
           THEN /\ res'.calls = <<"commit">>
                /\ Live' = ValsOf(heap, lists, txn[t].snap)
                /\ res'.err = "none" =>
                        txn'[t].committed /\ ~txn'[t].active
           ELSE /\ res'.calls = <<>>
                /\ res'.err = "none"
                /\ UNCHANGED <<StoreVars, txn>>]_vars

C8_Witness ==
    /\ res.op = "exit" /\ res.exc = "none" /\ res.err = "none"
    /\ res.calls = <<"commit">>
    /\ txn[1].committed
    /\ txn[1].queued = 2

\* C9: when a transaction becomes active, its snapshot equals the live
\* record list of that moment and its operation log is empty.
C9_SnapshotAtEnter ==
    [][\A t \in Txns :
        (TxnState(t) = "pending" /\ TxnState(t)' = "active")
        => /\ ValsOf(heap', lists', txn'[t].snap) = Live'
           /\ txn'[t].ops = <<>>]_vars

-----------------------------------------------------------------------------
(* Schema migration, checked under SpecMig: migrations over a loaded list. *)

InitMig == \E L \in InitLists : InitLoaded(L, FALSE)

NextMig ==
    \/ \E i \in 1..Len(Callbacks), mode \in {"ok", "replace"} : Migrate(i, "ok", mode)
    \/ \E r \in {[v |-> 1]} : DbInsert(r, "ok")
    \/ \E q \in {<< <<"v", 1>> >>} : DbFind(q)

SpecMig == InitMig /\ [][NextMig]_vars

\* C10: when the callback given to migrate_schema raises (its own error or
\* a migration operation's), the live record list is afterwards equal to
\* the list before the call and the schema version is unchanged.
C10_MigrationRollback ==
    [][(res'.op = "db.migrate_schema" /\ res'.msg \in {"migration", "callback"})
        => /\ Live' = Live
           /\ meta'.version = meta.version]_vars

-----------------------------------------------------------------------------
(* Migrations and the store file.                                          *)

\* A new instance opened on the files, the records it holds, and that it
\* holds the records L and the ledger m.
Reopened == Database_init(Cur, "ok", "ok", "ok", 0, "ok")

ReopenedVals == ListVals(Reopened, Reopened.db)

Holds(S, L, m) == S.err = "none" /\ ListVals(S, S.db) = L /\ S.meta = m

ReopenedSees(L, m) == Holds(Reopened, L, m)

\* The list a callback that runs to its end makes of the list L.
MigratedVals(L, cb) == RunSteps(L, [i \in 1..Len(L) |-> i], cb.steps).heap

MigrationFailed(r) ==
    r.op = "db.migrate_schema" /\ r.msg \in {"migration", "callback"}

\* C11: a failed migration is invisible afterwards: the call re-raises the
\* original error, a store reopened on the same file loads the list from
\* before the migration, and a successful migration right after it on the
\* same instance yields the list from before the failed migration changed
\* by its own callback only, at the previous version plus one.
C11_FailedMigrationInvisible ==
    [][/\ (MigrationFailed(res') /\ Decrypt(file) = Live)
            => /\ res'.err \in {"MigrationError", "ValueError"}
               /\ ReopenedVals' = Live
       /\ (MigrationFailed(res) /\ res'.op = "db.migrate_schema" /\ res'.err = "none")
            => /\ Live' = MigratedVals(res.arg.recs, Callbacks[res'.t])
               /\ meta'.version = meta.version + 1]_vars

\* C12: a migrate_schema call that returns normally has increased the
\* schema version by exactly 1, appended exactly one history entry (old
\* version, old version + 1, name), emptied the query cache and saved the
\* migrated list: a store reopened on the same files holds the migrated
\* records and the new ledger.
C12_SuccessfulMigration ==
    /\ [][(res'.op = "db.migrate_schema" /\ res'.err = "none")
            => /\ meta'.version = meta.version + 1
               /\ meta'.migrations = Append(meta.migrations,
                                            [from_version |-> meta.version,
                                             to_version |-> meta.version + 1,
                                             name |-> res'.t])
               /\ Live' = MigratedVals(Live, Callbacks[res'.t])]_vars
    /\ []((res.op = "db.migrate_schema" /\ res.err = "none")
            => /\ cache = <<>>
               /\ Decrypt(file) = Live
               /\ ReopenedSees(Live, meta))

\* A second migration has returned and has changed the records.
C12_Witness ==
    /\ res.op = "db.migrate_schema" /\ res.err = "none"
    /\ meta.version = 2
    /\ Live # res.arg.recs
    /\ ReopenedVals = Live

-----------------------------------------------------------------------------
(* Migrations whose defaults are keywords: the default is resolved at each *)
(* record, from the clock and uuid4 where the keyword asks for them.       *)

DefaultsLists ==
    { <<>>, <<[v |-> 1]>>, <<[id |-> 1], [id |-> 2, v |-> None]>> }

InitDefaults == \E L \in DefaultsLists : InitLoaded(L, FALSE)

NextDefaults ==
    \/ \E i \in KeywordCallbacks, mode \in {"ok", "replace"} : Migrate(i, "ok", mode)
    \/ DbInsert([v |-> 1], "ok")
    \/ \E mode \in WriteModes : DbSave(mode)

SpecDefaults == InitDefaults /\ [][NextDefaults]_vars

\* The values of the field f in the records of L that hold it.
FieldVals(L, f) == [i \in {j \in 1..Len(L) : f \in DOMAIN L[j]} |-> L[i][f]]

\* No record holds a keyword: "v" holds an int or None, "ts" a reading of
\* the clock and "uid" a UUID that no other record holds.
DefaultsResolved ==
    /\ \A i \in DOMAIN FieldVals(Live, "v") : FieldVals(Live, "v")[i] \in {None, 0, 1}
    /\ \A i \in DOMAIN FieldVals(Live, "ts") :
          \E t \in 1..Len(Timestamps) : FieldVals(Live, "ts")[i] = Timestamps[t]
    /\ \A i, j \in DOMAIN FieldVals(Live, "uid") :
          /\ \E u \in 1..(MaxLen + 1) : FieldVals(Live, "uid")[i] = Uuid(u)
          /\ i # j => FieldVals(Live, "uid")[i] # FieldVals(Live, "uid")[j]

\* A migration has filled "v" with 0 where it was None or missing.
DefaultsZero ==
    /\ res.op = "db.migrate_schema" /\ res.err = "none"
    /\ Live = <<[id |-> 1, v |-> 0], [id |-> 2, v |-> 0]>>

\* A migration has given two records their own UUIDs, the second record
\* with an earlier reading of the clock than the first (the local time
\* went back).
DefaultsDrawn ==
    /\ res.op = "db.migrate_schema" /\ res.err = "none"
    /\ Len(Live) = 2
    /\ \A i \in 1..2 : {"ts", "uid"} \subseteq DOMAIN Live[i]
    /\ Live[1].ts = Timestamps[2] /\ Live[2].ts = Timestamps[1]
    /\ Live[1].uid # Live[2].uid

-----------------------------------------------------------------------------
(* The version ledger under increments, resets, reloads and migrations,    *)
(* with saves of the ledger file that can fail.                            *)

NextLedger ==
    \/ \E lmode \in LedgerModes : LedgerIncrement(0, lmode)
    \/ \E lmode \in LedgerModes : LedgerReset(lmode)
    \/ \E rd \in LedgerReads, lmode \in LedgerModes : LedgerReload(rd, lmode)
    \/ \E rd \in LedgerReads, lmode \in LedgerModes :
          Startup(rd, lmode, "ok", 0, "ok")
    \/ \E i \in 1..2, lmode \in LedgerModes, mode \in {"ok", "replace"} :
          Migrate(i, lmode, mode)

SpecLedger == InitMig /\ [][NextLedger]_vars

\* The version equals the number of history entries and the i-th entry
\* (0-based) leads from version i to version i + 1.
LedgerWellFormed(m) ==
    /\ m.version = Len(m.migrations)
    /\ \A i \in 1..Len(m.migrations) :
          /\ m.migrations[i].from_version = i - 1
          /\ m.migrations[i].to_version = i

\* The statement as claimed: only reset() lowers the version.
C13_LedgerAsClaimed ==
    [][/\ res'.op # "reset" => meta'.version >= meta.version
       /\ LedgerWellFormed(meta')]_vars

\* C13: over increment_version, successful and failed migrations, resets
\* and reloads of the ledger from its file (by a new SchemaVersion object,
\* alone or in Database.__init__), the version never decreases except
\* through reset() or through a reload that finds the file not holding the
\* ledger in memory (a save of the ledger had failed) or cannot read it; a
\* reload returns the ledger the file holds, and a fresh ledger at version
\* 0, saved over the file, when the file cannot be read or parsed; the
\* file differs from the ledger in memory only after a call that raised;
\* the version always equals the number of history entries and the i-th
\* entry (0-based) has from_version = i and to_version = i + 1.
C13_Ledger ==
    [][/\ (res'.op # "reset"
             /\ ~(res'.op \in {"reload", "startup"}
                    /\ (metaFile # meta \/ res'.arg.ledger = "error")))
            => meta'.version >= meta.version
       /\ (res'.op \in {"reload", "startup"} /\ metaFile # Partial
             /\ res'.arg.ledger = "ok")
            => (meta' = metaFile /\ metaFile' = metaFile)
       /\ (res'.op \in {"reload", "startup"} /\ res'.arg.save = "ok"
             /\ (metaFile = Partial \/ res'.arg.ledger = "error"))
            => (meta' = FreshLedger /\ metaFile' = FreshLedger)
       /\ (metaFile = meta /\ metaFile' # meta') => res'.err # "none"
       /\ LedgerWellFormed(meta')]_vars

\* A reload has found a ledger of MaxVersion entries in the file.
C13_Witness ==
    /\ res.op = "reload"
    /\ meta.version = MaxVersion
    /\ Len(meta.migrations) = MaxVersion
    /\ metaFile = meta

-----------------------------------------------------------------------------
(* The durable write path: writes that return, fail or die, reads,         *)
(* recoveries and restarts on the files of one store.                      *)

\* The contents written: the empty text, texts without and with a carriage
\* return, and an encrypted record list.
StorageContents ==
    { Text(<<>>), Text(<<"a">>), Text(<<"a", "CR">>), Text(<<"CR", "LF">>),
      Encrypt(<<[v |-> 1]>>) }

InitStorage ==
    /\ heap = <<>>
    /\ lists = << <<>> >>
    /\ dbData = 1
    /\ idxData = NoList
    /\ cache = <<>>
    /\ qc = QueryCache_init(TRUE, DefaultCacheSize)
    /\ file \in {Absent} \cup StorageContents
    /\ wal = Absent
    /\ tmp = 0
    /\ txn = [t \in Txns |-> NoTxn]
    /\ meta = FreshLedger
    /\ metaFile = FreshLedger
    /\ schemaPk = FALSE
    /\ res = [op |-> "init", t |-> 0, err |-> "none", msg |-> "",
              exc |-> "none", calls |-> <<>>, arg |-> NoValue, ret |-> NoValue]

NextStorage ==
    \/ \E c \in StorageContents, mode \in WriteModes : StorageWrite(c, mode)
    \/ StorageRead
    \/ \E rmode \in RecoverModes :
          \E n \in RecoverCuts(wal, rmode) : StorageRecover(rmode, n)
    \/ \E c \in StorageContents, point \in CrashPoints :
          \E n \in IF point = "wal" THEN 0..Size(OnDisk(c)) ELSE {0} :
             CrashInWrite(c, point, n)
    \/ \E rmode \in RecoverModes, lmode \in LoadModes :
          \E n \in RecoverCuts(wal, rmode) : Startup("ok", "ok", rmode, n, lmode)

SpecStorage == InitStorage /\ [][NextStorage]_vars

\* C14: when the process dies at any step of a write of B over a store
\* file holding A, the store file after the next startup (whose WAL
\* recovery meets no I/O error) holds exactly A or exactly B.
C14_CrashSafety ==
    [][(res.op = "crash" /\ res.arg.a # Absent
            /\ res'.op = "startup" /\ res'.arg.recover = "ok")
        => file' \in {res.arg.a, res.arg.b}]_vars

\* C15: after a write of B that was interrupted with the WAL completely
\* written and the store file not yet replaced, the store file holds A, also
\* after a read; recover_from_wal() that meets no I/O error then returns
\* True, makes the store file hold exactly B and removes the WAL.
C15_RecoverStagedWrite ==
    [][(res.op = "crash" /\ res.arg.point = "tmp" /\ res.arg.a # Absent)
        => /\ file = res.arg.a
           /\ res'.op = "read" => file' = res.arg.a
           /\ (res'.op = "recover_from_wal" /\ res'.arg.recover = "ok")
                => /\ res'.ret = Bool(TRUE)
                   /\ file' = res.arg.b
                   /\ wal' = Absent]_vars

\* C16: when the temp file write or the rename fails, write raises that
\* error, no temp file of the call is left, the store file holds what it
\* held before, and the WAL holds the content of the call.
C16_FailedWrite ==
    [][(res'.op = "write" /\ res'.msg = "write file")
        => /\ res'.err = "OSError"
           /\ tmp' = tmp
           /\ file' = file
           /\ wal' = OnDisk(res'.arg)]_vars

\* The parts of C16 that hold for every failure of the temp file write or
\* of os.replace: the error is raised, the store file and the WAL are as
\* claimed, and the temp file is gone unless its unlink failed too.
C16_FailedWriteKeepsFiles ==
    [][(res'.op = "write" /\ res'.msg = "write file")
        => /\ res'.err = "OSError"
           /\ tmp' \in {tmp, tmp + 1}
           /\ file' = file
           /\ wal' = OnDisk(res'.arg)]_vars

\* C17: a WAL exists only from the first step of a write to its last: after
\* every write that returns normally there is no WAL; a WAL appears only by
\* a write that raised or whose process died before the end; a WAL goes
\* away only by a write that ran to its end or by a recovery that returned
\* True; a write that raised or whose process died before the end leaves a
\* WAL (so that no WAL means the last write completed, was recovered, or
\* there was none).  Reads, recoveries and restarts never create one.
C17_WalPresence ==
    [][/\ (res'.op = "write" /\ res'.err = "none") => wal' = Absent
       /\ (wal = Absent /\ wal' # Absent)
            => \/ res'.op = "write" /\ res'.err # "none"
               \/ res'.op = "crash" /\ res'.arg.point # "done"
       /\ (wal # Absent /\ wal' = Absent)
            => \/ res'.op = "write" /\ res'.err = "none"
               \/ res'.op = "crash" /\ res'.arg.point = "done"
               \/ res'.op = "recover_from_wal" /\ res'.ret = Bool(TRUE)
               \/ res'.op = "startup" /\ res'.arg.recover = "ok"
       /\ (\/ res'.op = "write" /\ res'.err # "none"
           \/ res'.op = "crash" /\ res'.arg.point # "done")
            => wal' # Absent
       /\ res'.op \in {"read", "recover_from_wal", "startup"}
            => wal' \in {wal, Absent}]_vars

\* The parts of C17 that hold: a WAL appears only by a write (one that
\* raised, died before its end, or returned after the unlink of the WAL
\* failed) and goes away only by a write that ran to its end or by a
\* recovery; reads, recoveries and restarts never create or alter one.
C17_WalLifeCycle ==
    [][/\ (wal = Absent /\ wal' # Absent)
            => \/ res'.op = "write" /\ res'.msg # "write wal"
                                   /\ wal' = OnDisk(res'.arg)
               \/ res'.op = "write" /\ res'.msg = "write wal"
               \/ res'.op = "crash" /\ res'.arg.point # "done"
       /\ (wal # Absent /\ wal' = Absent)
            => \/ res'.op = "write" /\ res'.err = "none"
               \/ res'.op = "crash" /\ res'.arg.point = "done"
               \/ res'.op = "recover_from_wal" /\ res'.ret = Bool(TRUE)
               \/ res'.op = "startup" /\ res'.arg.recover = "ok"
       /\ res'.op \in {"read", "recover_from_wal", "startup"}
            => wal' \in {wal, Absent}]_vars

\* C18: recover_from_wal() returns True exactly when a WAL existed and no
\* I/O error came up, and then the store file equals the WAL content and
\* the WAL is gone; without a WAL it returns False and changes nothing;
\* when reading the WAL or writing the store file fails it returns False
\* and the WAL is as before.
C18_RecoverFromWal ==
    [][res'.op = "recover_from_wal"
        => /\ res'.ret = Bool(TRUE) <=> (wal # Absent /\ res'.arg.recover = "ok")
           /\ res'.ret = Bool(TRUE) => (file' = wal /\ wal' = Absent)
           /\ wal = Absent => (res'.ret = Bool(FALSE) /\ file' = file /\ wal' = Absent)
           /\ (wal # Absent /\ res'.arg.recover # "ok") => (res'.ret = Bool(FALSE) /\ wal' = wal)]_vars

\* C19: read() right after a write(content) that returned yields exactly
\* content, the empty string included; read() without a store file
\* returns the empty string and does not raise.
C19_RoundTrip ==
    [][/\ (res.op = "write" /\ res.err = "none" /\ res'.op = "read")
            => (res'.ret = res.arg /\ res'.err = "none")
       /\ (res'.op = "read" /\ file = Absent)
            => (res'.ret = Text(<<>>) /\ res'.err = "none")]_vars

\* The store file as load() finds it can be read and decrypted.
Decodable(f, lmode) == lmode = "ok" /\ DecryptOk(AsRead(f))

\* The store file as load() finds it can be read and is empty.
ReadsEmpty(f, lmode) == lmode = "ok" /\ AsRead(f) = Text(<<>>)

\* C20: the outcome of opening a store is decided by the store file as it
\* is after the WAL recovery: absent, or present and empty: an empty record
\* list; valid: the decoded records; present, not empty and unreadable or
\* not decryptable: RuntimeError and no store.  A failed WAL recovery
\* leaves the WAL and the construction goes on to the load.
C20_StartupOutcomes ==
    [][res'.op = "startup"
        => /\ (file' = Absent \/ ReadsEmpty(file', res'.arg.load))
                => (res'.err = "none" /\ Live' = <<>>)
           /\ (file' # Absent /\ Decodable(file', res'.arg.load))
                => (res'.err = "none" /\ Live' = Decrypt(file'))
           /\ (file' # Absent /\ ~ReadsEmpty(file', res'.arg.load)
                             /\ ~Decodable(file', res'.arg.load))
                => res'.err = "RuntimeError"
           /\ (wal # Absent /\ res'.arg.recover # "ok")
                => (wal' = wal /\ res'.calls = <<"recover_from_wal">>
                              /\ res'.err \in {"none", "RuntimeError"})]_vars

\* A store has been opened with its records although the recovery of the
\* WAL found at startup failed.
C20_Witness ==
    /\ res.op = "startup" /\ res.err = "none"
    /\ res.arg.recover = "read"
    /\ wal # Absent
    /\ Live = <<[v |-> 1]>>

-----------------------------------------------------------------------------------------------------------------------------------------------------
(* The store and its queries: a store opened on a file of records, whose   *)
(* caller inserts, updates, deletes, migrates and queries, and runs a      *)
(* transaction to its commit:                                              *)
(*     with db.transaction() as txn:                                       *)
(*         txn.insert(r)                                                   *)
(* The store is called outside the transaction's scope only, and the       *)
(* caller lets go of the committed transaction.                            *)

StoreLists ==
    { <<>>, <<[v |-> 1]>>, <<[id |-> 2, v |-> 1], [v |-> 1]>> }

InitStore == \E L \in StoreLists : InitLoaded(L, FALSE)

StoreQueries == { << <<"v", 1>> >> }

\* The name txn goes out of scope after the commit: the caller holds no
\* transaction any more.  This is no call, `res` stays.
Release(t) ==
    /\ txn[t].committed
    /\ txn' = [txn EXCEPT ![t] = NoTxn]
    /\ UNCHANGED <<heap, lists, dbData, idxData, cache, qc, file, wal, tmp, meta,
                   metaFile, schemaPk, res>>

NextStore ==
    \/ ~txn[1].made /\ DbInsert([v |-> 1], "ok")
    \/ ~txn[1].made /\ \E q \in StoreQueries : DbUpdate(q, [v |-> 2], "ok")
    \/ ~txn[1].made /\ \E q \in StoreQueries : DbDelete(q, "ok")
    \/ ~txn[1].made /\ \E q \in StoreQueries : DbFind(q)
    \/ ~txn[1].made /\ Migrate(1, "ok", "ok")
    \/ ~txn[1].made /\ DbDisableCache
    \/ ~txn[1].made /\ DbEnableCache
    \/ ~txn[1].made /\ \E mode \in {"ok", "replace"} : DbSave(mode)
    \/ NewTxn(1)
    \/ Enter(1)
    \/ TxnInsert(1, [v |-> 1])
    \/ Commit(1, "ok")
    \/ Release(1)

SpecStore == InitStore /\ [][NextStore]_vars

\* The last call is a mutation of the store that returned normally.
Mutated ==
    /\ res.err = "none"
    /\ \/ res.op \in {"db.insert", "db.update", "db.delete", "db.migrate_schema"}
       \/ res.op = "commit"

\* C21: after an insert, update, delete, transaction commit or migration
\* that returned normally, the store file decodes to exactly the live record
\* list, and a new store opened on the same path loads that list.
C21_Durability ==
    Mutated => /\ file # Absent /\ DecryptOk(file)
               /\ Decrypt(file) = Live
               /\ Reopened.err = "none"
               /\ ReopenedVals = Live

\* An update has changed a loaded record and returned.
C21_Witness ==
    /\ res.op = "db.update" /\ res.err = "none"
    /\ \E i \in 1..Len(Live) : Live[i].v = 2
    /\ Decrypt(file) = Live

-----------------------------------------------------------------------------
(* A QueryCache by itself: constructed with a size and a switch, then      *)
(* called with queries of up to two fields and with result lists over the  *)
(* records of the store.                                                   *)

CacheQueries ==
    { <<>>, << <<"id", 1>> >>, << <<"v", 1>> >>,
      << <<"id", 1>>, <<"v", 1>> >>, << <<"v", 1>>, <<"id", 1>> >> }

\* The result lists set() is given: lists of record objects.
CacheResults == { <<>>, <<1>> }

\* QueryCache(max_size=n, enabled=on) next to a store that holds one record.
InitCache ==
    /\ heap = <<[id |-> 1, v |-> 1]>>
    /\ lists = << <<1>> >>
    /\ dbData = 1
    /\ idxData = NoList
    /\ cache = <<>>
    /\ \E n \in 1..MaxCache, on \in BOOLEAN : qc = QueryCache_init(on, n)
    /\ file = Encrypt(<<[id |-> 1, v |-> 1]>>)
    /\ wal = Absent
    /\ tmp = 0
    /\ txn = [t \in Txns |-> NoTxn]
    /\ meta = FreshLedger
    /\ metaFile = FreshLedger
    /\ schemaPk = FALSE
    /\ res = [op |-> "init", t |-> 0, err |-> "none", msg |-> "",
              exc |-> "none", calls |-> <<>>, arg |-> NoValue, ret |-> NoValue]

NextCache ==
    \/ \E q \in CacheQueries : CacheGet(q)
    \/ \E q \in CacheQueries, r \in CacheResults : CacheSet(q, r)
    \/ CacheInvalidate
    \/ CacheClear
    \/ CacheEnable
    \/ CacheDisable
    \/ CacheResetStats

SpecCache == InitCache /\ [][NextCache]_vars

\* The field/value pairs of a query, whatever their order.
Pairs(q) == {q[i] : i \in 1..Len(q)}

\* The cached entry of query q in cache c, as a set of none or one.
Cached(c, q) == {c[k] : k \in {k \in 1..Len(c) : c[k].key = QueryCache_make_key(q)}}

\* C22: a get of q1 right after a set of q2 with result r, where q1 and q2
\* hold the same field/value pairs in any order, is a hit that returns r;
\* queries with different pairs have different keys, and a set for one
\* query makes or changes no entry of a query with other pairs.
C22_KeyNormalization ==
    /\ [](\A q1, q2 \in CacheQueries :
             Pairs(q1) # Pairs(q2)
                => QueryCache_make_key(q1) # QueryCache_make_key(q2))
    /\ [][/\ (res.op = "set" /\ res'.op = "get" /\ qc.enabled
               /\ Pairs(res.arg.query) = Pairs(res'.arg.query))
             => /\ res'.ret = Records(res.arg.result)
                /\ qc'.hits = qc.hits + 1 /\ qc'.misses = qc.misses
          /\ res'.op = "set"
             => \A q1 \in CacheQueries :
                   Pairs(q1) # Pairs(res'.arg.query)
                      => Cached(cache', q1) \subseteq Cached(cache, q1)]_vars

\* A get with the pairs in the order v, id has hit the entry that was set.
C22_Witness ==
    /\ res.op = "get" /\ res.arg.query = << <<"v", 1>>, <<"id", 1>> >>
    /\ res.ret = Records(<<[id |-> 1, v |-> 1]>>)
    /\ qc.hits = 1
    /\ \E k \in 1..Len(cache) : cache[k].key = "{\"id\": 1, \"v\": 1}"

\* The keys of the entries of cache c, oldest use first.
Keys(c) == [k \in 1..Len(c) |-> c[k].key]

\* The last call is a set() of a query on an enabled cache.
SetOn(r, on) == r.op = "set" /\ on

\* C23: the cache never holds more entries than its size; a set of a new
\* key into a full cache drops exactly one entry, the least recently used
\* one (the first of the order that set and get keep), and keeps all others
\* in their order; a set of a present key drops nothing.
C23_LruBound ==
    [][/\ Len(cache') <= qc'.max_size
       /\ (SetOn(res', qc.enabled) /\ Cached(cache, res'.arg.query) = {}
              /\ Len(cache) = qc.max_size)
            => /\ Keys(cache') = Tail(Keys(cache))
                                   \o <<QueryCache_make_key(res'.arg.query)>>
               /\ \A k \in 2..Len(cache) : cache'[k - 1] = cache[k]
               /\ res'.calls = <<"popitem">>
       /\ (SetOn(res', qc.enabled) /\ Cached(cache, res'.arg.query) # {})
            => /\ {cache'[k].key : k \in 1..Len(cache')} = {cache[k].key : k \in 1..Len(cache)}
               /\ res'.calls = <<"move_to_end">>]_vars

\* A set of a third key into a full cache of size 2 has dropped an entry.
C23_Witness ==
    /\ res.op = "set" /\ res.calls = <<"popitem">>
    /\ qc.max_size = 2 /\ Len(cache) = 2
    /\ cache[2].key = QueryCache_make_key(res.arg.query)

\* The call r is a get() that found its entry.
Hit(r) == r.op = "get" /\ r.ret.k = "list"

\* The sequence s without the element x.
Without(s, x) == SelectBy(s, [j \in 1..Len(s) |-> s[j] # x])

\* C24: a get that finds its key makes it the most recently used one: the
\* entry moves to the end of the order and the others keep theirs; so a set
\* that follows the hit drops that key only when no other key is cached, and
\* never before a key that was not accessed.
C24_LruPromotion ==
    [][/\ Hit(res')
            => LET key == QueryCache_make_key(res'.arg.query) IN
               /\ Cached(cache, res'.arg.query) # {}
               /\ Keys(cache') = Append(Without(Keys(cache), key), key)
               /\ Cached(cache', res'.arg.query) = Cached(cache, res'.arg.query)
       /\ (Hit(res) /\ res'.op = "set" /\ Cached(cache', res.arg.query) = {})
            => Len(cache) = 1]_vars

\* After a hit of one of two keys a set of a third key has dropped the other
\* one: the key that was hit is still cached, now as the oldest.
C24_Witness ==
    /\ res.op = "set" /\ res.calls = <<"popitem">>
    /\ qc.max_size = 2 /\ qc.hits = 1 /\ qc.misses = 0
    /\ Keys(cache) = <<"{\"v\": 1}", "{}">>

\* C25: while the cache is disabled it holds no entry, every get returns
\* None and leaves both counters, and every set stores nothing; disable()
\* drops all entries, so an enable() after it starts from an empty cache and
\* a get of a query that was set before the disable finds nothing.
C25_DisabledCache ==
    [][/\ ~qc'.enabled => cache' = <<>>
       /\ (~qc.enabled /\ res'.op = "get")
            => /\ res'.ret = NoValue
               /\ qc'.hits = qc.hits /\ qc'.misses = qc.misses
       /\ (~qc.enabled /\ res'.op = "set") => cache' = <<>>
       /\ res'.op = "disable" => (~qc'.enabled /\ cache' = <<>>)
       /\ res'.op = "enable" => (qc'.enabled /\ cache' = cache)
       /\ (res.op = "enable" /\ res'.op = "get" /\ cache = <<>>)
            => (res'.ret = NoValue /\ qc'.misses = qc.misses + 1)]_vars

\* A get on a disabled cache, after an entry was set and hit before the
\* disable: None, and the counters are as they were.
C25_Witness ==
    /\ res.op = "get" /\ ~qc.enabled
    /\ res.ret = NoValue
    /\ qc.hits = 1 /\ qc.misses = 0

\* C26: a get on an enabled cache adds one to exactly one counter, to hits
\* when the key is cached and to misses when it is not; invalidate, clear,
\* set, enable and disable change neither counter; reset_stats sets both to
\* 0 and nothing else lowers a counter.
C26_HitMissAccounting ==
    [][/\ (res'.op = "get" /\ qc.enabled)
            => IF Cached(cache, res'.arg.query) # {}
               THEN qc'.hits = qc.hits + 1 /\ qc'.misses = qc.misses
               ELSE qc'.misses = qc.misses + 1 /\ qc'.hits = qc.hits
       /\ res'.op \in {"invalidate", "clear", "set", "enable", "disable"}
            => (qc'.hits = qc.hits /\ qc'.misses = qc.misses)
       /\ res'.op = "reset_stats" => (qc'.hits = 0 /\ qc'.misses = 0)
       /\ (qc'.hits < qc.hits \/ qc'.misses < qc.misses)
            => res'.op = "reset_stats"]_vars

\* clear() after one hit and one miss: the cache is empty, the counters stay.
C26_Witness ==
    /\ res.op = "clear" /\ cache = <<>>
    /\ qc.hits = 1 /\ qc.misses = 1

\* The records Indexer.query gives for query q in the current state.
Recomputed(q) ==
    LET found == Indexer_query(Cur, q)
    IN Records([j \in 1..Len(found) |-> heap[found[j]]])

\* C27: after an insert, update, delete, migration or commit that returned
\* the query cache holds no entry (and entries exist only once the index is
\* built), so the find that follows on the enabled cache counts a miss, not a
\* hit, and returns what Indexer.query computes.
C27_Invalidation ==
    /\ [](/\ Mutated => cache = <<>>
          /\ cache # <<>> => idxData # NoList)
    /\ [][(Mutated /\ res'.op = "db.find" /\ qc.enabled /\ idxData # NoList)
            => /\ qc'.misses = qc.misses + 1 /\ qc'.hits = qc.hits
               /\ res'.err = "none"
               /\ res'.ret = Recomputed(res'.arg.query)]_vars

\* The find after a mutation: the second miss of the one query, which the
\* first find had cached.
C27_Witness ==
    /\ res.op = "db.find" /\ res.err = "none"
    /\ qc.misses = 2 /\ qc.hits = 0
    /\ Len(cache) = 1

\* The records of the list L that satisfy the equality query q, in order.
Matching(L, q) == SelectBy(L, [j \in 1..Len(L) |-> MatchesGet(L[j], q)])

\* C28: once the index is built, find(q) returns exactly the records of the
\* current live list that satisfy q, in list order, whatever inserts,
\* updates, deletes, commits and migrations came before; it never answers
\* from a list that is not the live one.
C28_FindCurrent ==
    [][(res'.op = "db.find" /\ idxData # NoList)
          => /\ res'.err = "none"
             /\ res'.ret = Records(Matching(Live, res'.arg.query))]_vars

\* C29: on a newly constructed store, empty or loaded from a file, find(q)
\* returns the matching records of the loaded list without raising, and
\* update(q, patch) patches the matching loaded records.
C29_FindBeforeInsert ==
    [][/\ (res.op = "init" /\ res'.op = "db.find")
            => /\ res'.err = "none"
               /\ res'.ret = Records(Matching(Live, res'.arg.query))
       /\ (res.op = "init" /\ res'.op = "db.update")
            => /\ res'.err = "none"
               /\ Live' = [j \in 1..Len(Live) |->
                              IF MatchesGet(Live[j], res'.arg.query)
                              THEN Merge(Live[j], [v |-> 2]) ELSE Live[j]]]_vars

-----------------------------------------------------------------------------
(* Deletes by queries of one and two fields on stores whose records have   *)
(* or lack the field "id".                                                 *)

DeleteQueries ==
    { << <<"v", 1>> >>, << <<"id", 2>> >>, << <<"v", 1>>, <<"id", 2>> >>,
      << <<"v", 3>> >> }

NextDelete ==
    \/ \E r \in InsRecs : DbInsert(r, "ok")
    \/ \E q \in DeleteQueries : DbDelete(q, "ok")

SpecDelete == InitMig /\ [][NextDelete]_vars

\* Every field/value pair of q holds in record d by equality; a record
\* without a queried field does not match.
FullMatch(d, q) == \A i \in 1..Len(q) : q[i][1] \in DOMAIN d /\ d[q[i][1]] = q[i][2]

\* C30: delete(q) returns without raising and leaves exactly the records
\* that do not match every pair of q, in their order: records that match
\* only some pairs or lack a queried field stay, and a query that matches
\* nothing leaves the list as it is.
C30_Delete ==
    [][res'.op = "db.delete"
          => /\ res'.err = "none"
             /\ Live' = SelectBy(Live, [j \in 1..Len(Live) |->
                                           ~FullMatch(Live[j], res'.arg.query)])]_vars

-----------------------------------------------------------------------------
(* update(query, patch) on the live list.                                  *)

\* The list L with the patch u merged into the records that satisfy q.
Patched(L, q, u) ==
    [j \in 1..Len(L) |-> IF MatchesGet(L[j], q) THEN Merge(L[j], u) ELSE L[j]]

\* C31: update(query, patch) returns without raising; afterwards the live
\* list is the list before with the patch merged into exactly the records
\* that match the query (same number, same order; unchanged when nothing
\* matches), and the store file decodes to that list.
C31_UpdateFrame ==
    [][res'.op = "db.update"
          => /\ res'.err = "none"
             /\ Live' = Patched(Live, res'.arg.query, res'.arg.patch)
             /\ file' # Absent /\ DecryptOk(file') /\ Decrypt(file') = Live']_vars

\* The same frame condition for updates made once the index has been built.
C31_UpdateFrameBuilt ==
    [][res'.op = "db.update" /\ idxData # NoList
          => /\ res'.err = "none"
             /\ Live' = Patched(Live, res'.arg.query, res'.arg.patch)
             /\ file' # Absent /\ DecryptOk(file') /\ Decrypt(file') = Live']_vars

-----------------------------------------------------------------------------
(* A store whose schema gets the primary key "id": store inserts and finds, *)
(* and one transaction that inserts and deletes.                           *)

SchemaLists == { <<>>, <<[id |-> 1, v |-> 1]>> }

InitSchema == \E L \in SchemaLists : InitLoaded(L, FALSE)

NextSchema ==
    \/ ~txn[1].made /\ SchemaAddPk
    \/ \E r \in InsRecs : DbInsert(r, "ok")
    \/ ~txn[1].made /\ \E q \in StoreQueries : DbFind(q)
    \/ NewTxn(1)
    \/ Enter(1)
    \/ \E r \in InsRecs : TxnInsert(1, r)
    \/ TxnDelete(1, << <<"id", 1>> >>)

SpecSchema == InitSchema /\ [][NextSchema]_vars

\* C32: when the validator rejects the record of a store insert, the call
\* raises the validator's error and the live list, the cache and the store
\* file are as before; when it rejects the record of an insert of an open
\* transaction, the call raises the validator's error, the snapshot and the
\* operation log are as before and the transaction is still active.
C32_ValidationFailure ==
    [][/\ (res'.op = "db.insert"
            /\ Schema_validate(schemaPk, res'.arg.record, Live) # "ok")
          => /\ res'.err = Schema_validate(schemaPk, res'.arg.record, Live)
             /\ Live' = Live
             /\ cache' = cache /\ qc' = qc
             /\ file' = file /\ wal' = wal /\ tmp' = tmp
       /\ \A t \in Txns :
            (res'.op = "insert" /\ res'.t = t /\ IsOpen(t)
             /\ Schema_validate(schemaPk, res'.arg.record, SnapVals(t)) # "ok")
          => /\ res'.err = Schema_validate(schemaPk, res'.arg.record, SnapVals(t))
             /\ ValsOf(heap', lists', txn'[t].snap) = SnapVals(t)
             /\ Len(txn'[t].ops) = Len(txn[t].ops)
             /\ txn'[t].queued = txn[t].queued
             /\ txn'[t].active /\ ~txn'[t].committed /\ ~txn'[t].rolled_back
             /\ Live' = Live]_vars

\* An open transaction that has queued an operation has had an insert
\* rejected for its primary key.
C32_Witness ==
    /\ res.op = "insert" /\ res.err = "PrimaryKeyViolation"
    /\ txn[1].active /\ Len(txn[1].ops) > 0

\* Some record of the list L has the key k in the field "id".
HasKey(L, k) == \E i \in 1..Len(L) : Get(L[i], "id") = k

\* C35: with the primary key "id" configured, an insert of an open
\* transaction is checked against the transaction's snapshot and not against
\* the live list: a record whose key is in the snapshot (such as one the
\* transaction inserted before) is rejected with PrimaryKeyViolation, and a
\* record whose key is not in the snapshot (such as the key of a live record
\* the transaction deleted before) is appended to the snapshot.
C35_ValidatedAgainstSnapshot ==
    [][\A t \in Txns :
        (res'.op = "insert" /\ res'.t = t /\ IsOpen(t) /\ schemaPk
         /\ Get(res'.arg.record, "id") # None)
          => /\ HasKey(SnapVals(t), res'.arg.record.id)
                  => res'.err = "PrimaryKeyViolation"
             /\ ~HasKey(SnapVals(t), res'.arg.record.id)
                  => /\ res'.err = "none"
                     /\ ValsOf(heap', lists', txn'[t].snap)
                          = Append(SnapVals(t), res'.arg.record)]_vars

\* A transaction that deleted the live record with key 1 has inserted a
\* record with key 1, which the live list still holds.
C35_Witness ==
    /\ schemaPk
    /\ res.op = "insert" /\ res.err = "none" /\ res.arg.record.id = 1
    /\ HasKey(Live, 1)
    /\ txn[1].active
    /\ \E i \in 1..Len(txn[1].ops) :
          txn[1].ops[i].type = "delete" /\ txn[1].ops[i].affected = 1

-----------------------------------------------------------------------------
(* A commit whose durable write fails.                                     *)

\* C36: when the durable write fails during the commit of an open
\* transaction, commit raises a transaction error, the transaction is not
\* marked committed, the store file is as before, and the live record list
\* is the one before the attempt and is not the transaction's snapshot
\* object, so that later operations of the transaction stay invisible.
C36_FailedCommitAtomic ==
    [][\A t \in Txns :
        (res'.op = "commit" /\ res'.t = t /\ IsOpen(t) /\ res'.err # "none")
          => /\ res'.err = "TransactionError"
             /\ ~txn'[t].committed
             /\ file' = file
             /\ Live' = Live
             /\ dbData' # txn'[t].snap]_vars

-----------------------------------------------------------------------------
(* A durable write that raised, and the next startup.                      *)

\* C37: a write over the store file that raises leaves the store file as it
\* was, and the startup that follows the failed write (with its check for a
\* WAL file and its WAL recovery) leaves the store file as it was, too.
C37_FailedWriteNeverApplied ==
    [][/\ (res'.op = "write" /\ res'.err # "none") => file' = file
       /\ (res.op = "write" /\ res.err # "none" /\ res'.op = "startup")
             => file' = file]_vars

\* The first half alone: the failed write itself leaves the store file.
C37_FailedWriteKeepsFile ==
    [][(res'.op = "write" /\ res'.err # "none") => file' = file]_vars

-----------------------------------------------------------------------------
(* The three flags of a transaction.                                       *)

\* C38: in every reachable state at most one of is_active, is_committed and
\* is_rolled_back is true of a transaction.
C38_FlagsExclusive ==
    \A t \in Txns :
        /\ ~(txn[t].active /\ txn[t].committed)
        /\ ~(txn[t].active /\ txn[t].rolled_back)
        /\ ~(txn[t].committed /\ txn[t].rolled_back)

-----------------------------------------------------------------------------
(* Commit against changes made to the store since the snapshot was taken.  *)

\* C39: after a commit that returned, the live list is the committing
\* transaction's snapshot and so is the store file; the list is the
\* start-time copy with the transaction's own operations applied, so that
\* what was done to the store directly after the snapshot was taken is not
\* in it.
C39_LastCommitWins ==
    [][\A t \in Txns :
        (res'.op = "commit" /\ res'.t = t /\ res'.err = "none")
          => /\ Live' = SnapVals(t)
             /\ DecryptOk(file') /\ Decrypt(file') = Live'
             /\ Live' = Replay(txn[t].base, OpsOf(t))]_vars

\* Two transactions and direct inserts, every durable write succeeding.
NextLastCommit ==
    \/ DbInsert([v |-> 1], "ok")
    \/ \E t \in Txns : NewTxn(t)
    \/ \E t \in Txns : Enter(t)
    \/ \E t \in Txns : TxnInsert(t, [id |-> t, v |-> 1])
    \/ \E t \in Txns : Commit(t, "ok")

SpecLastCommit == Init /\ [][NextLastCommit]_vars

\* A commit has dropped a record that was in the live list: a direct insert
\* or another transaction's commit made after the snapshot was taken.
C39_Lost ==
    /\ res.op = "commit" /\ res.err = "none"
    /\ txn[1].committed /\ txn[2].committed
    /\ Live = <<[id |-> res.t, v |-> 1]>>

\* The first part alone: the live list and the file are the snapshot.
C39_SnapshotInstalled ==
    [][\A t \in Txns :
        (res'.op = "commit" /\ res'.t = t /\ res'.err = "none")
          => /\ Live' = SnapVals(t)
             /\ DecryptOk(file') /\ Decrypt(file') = Live']_vars

-----------------------------------------------------------------------------
(* The cache against a store that runs without it.                         *)

\* The calls of SpecStore, a migration whose callback removes the field
\* "v" and then raises, and the rollback of the transaction.
NextTransparency ==
    \/ NextStore
    \/ ~txn[1].made /\ Migrate(RemoveThenRaise, "ok", "ok")
    \/ Rollback(1)

SpecTransparency == InitStore /\ [][NextTransparency]_vars

\* What find(q) gives in the current state when the cache is disabled.
Uncached(q) == Database_find([Cur EXCEPT !.qc.enabled = FALSE, !.cache = <<>>], q)

\* C40: a find on the store with its cache returns, or raises, what the same
\* find gives with the cache disabled, and every cached entry holds the
\* records a fresh evaluation of its query over the live list gives.
C40_CacheTransparency ==
    /\ [](\A q \in StoreQueries : \A c \in Cached(cache, q) :
             [j \in 1..Len(c.val) |-> heap[c.val[j]]] = Matching(Live, q))
    /\ [][(res'.op = "db.find" /\ res'.arg.query \in StoreQueries)
            => /\ res'.err = Uncached(res'.arg.query).err
               /\ res'.err = "none"
                    => res'.ret = Recomputed(res'.arg.query)]_vars

\* The step part alone: finds with and without the cache agree.
C40_SameAsUncached ==
    [][(res'.op = "db.find" /\ res'.arg.query \in StoreQueries)
          => /\ res'.err = Uncached(res'.arg.query).err
             /\ res'.err = "none"
                  => res'.ret = Recomputed(res'.arg.query)]_vars

-----------------------------------------------------------------------------
(* Indexer.query with operator-expressions.  Field values and operands are *)
(* Python values of several types, written here with their type: an int, a *)
(* str (a sequence of characters), None, and a list of such values.  A     *)
(* record maps field names to such values; a condition value is one of     *)
(* these or an operator-expression, a dict of operator/operand pairs in    *)
(* items() order.                                                          *)

IntV(n) == [t |-> "int", n |-> n]
StrV(s) == [t |-> "str", s |-> s]
NoneV == [t |-> "none"]
ListV(xs) == [t |-> "list", items |-> xs]
DictV(ops) == [t |-> "dict", ops |-> ops]

\* item.get(key)
ItemGet(item, key) == IF key \in DOMAIN item THEN item[key] ELSE NoneV

\* The code points of the characters used, in their order.
CharOrder == <<"%", "(", "1", "2", "A", "N", "_", "a", "b", "e", "n", "o">>

CharRank(c) == CHOOSE i \in 1..Len(CharOrder) : CharOrder[i] = c

\* str < str: the first differing character decides, a proper prefix is
\* smaller.
RECURSIVE StrCompare(_, _)
StrCompare(a, b) ==
    IF a = <<>> /\ b = <<>> THEN "eq"
    ELSE IF a = <<>> THEN "lt"
    ELSE IF b = <<>> THEN "gt"
    ELSE IF CharRank(Head(a)) < CharRank(Head(b)) THEN "lt"
    ELSE IF CharRank(Head(a)) > CharRank(Head(b)) THEN "gt"
    ELSE StrCompare(Tail(a), Tail(b))

\* The ordering comparisons a < b, a > b, a <= b, a >= b of Python 3 on an
\* item value (int, str or None) and an operand: ints and strs are ordered
\* among themselves, every other pairing raises TypeError.
Compare(a, b) ==
    IF a.t = "int" /\ b.t = "int"
    THEN (IF a.n < b.n THEN "lt" ELSE IF a.n > b.n THEN "gt" ELSE "eq")
    ELSE IF a.t = "str" /\ b.t = "str" THEN StrCompare(a.s, b.s)
    ELSE "TypeError"

\* a in b: membership in a list, substring of a str when a is a str;
\* TypeError for any other right-hand side.
Contains(a, b) ==
    IF b.t = "list" THEN (IF \E i \in 1..Len(b.items) : b.items[i] = a
                          THEN "True" ELSE "False")
    ELSE IF b.t = "str" /\ a.t = "str"
         THEN (IF \E i \in 0..Len(b.s) : \E j \in i..Len(b.s) : SubSeq(b.s, i + 1, j) = a.s
               THEN "True" ELSE "False")
    ELSE "TypeError"

\* str(v) for an int below ten, a str and None.
Str(v) ==
    IF v.t = "int" THEN <<ToString(v.n)>>
    ELSE IF v.t = "str" THEN v.s
    ELSE <<"N", "o", "n", "e">>

\* str(op_value).replace("%", ".*").replace("_", "."), with "^" in front
\* unless the operand starts with "%" and "$" behind unless it ends with "%".
RECURSIVE LikeBody(_)
LikeBody(p) ==
    IF p = <<>> THEN <<>>
    ELSE (IF Head(p) = "%" THEN <<".", "*">>
          ELSE IF Head(p) = "_" THEN <<".">>
          ELSE <<Head(p)>>) \o LikeBody(Tail(p))

LikePattern(p) ==
    (IF p # <<>> /\ p[1] = "%" THEN <<>> ELSE <<"^">>)
    \o LikeBody(p)
    \o (IF p # <<>> /\ p[Len(p)] = "%" THEN <<>> ELSE <<"$">>)

\* re.compile: a "(" that is never closed is an error of the pattern.
CompileError(re) == \E i \in 1..Len(re) : re[i] = "("

\* re.IGNORECASE
Fold(c) == IF c = "A" THEN "a" ELSE IF c = "N" THEN "n" ELSE c

CharMatch(p, c) == p = "." \/ Fold(p) = Fold(c)

\* The pattern re matches at the start of txt.
RECURSIVE MatchHere(_, _)
MatchHere(re, txt) ==
    IF re = <<>> THEN TRUE
    ELSE IF re = <<"$">> THEN txt = <<>>
    ELSE IF Len(re) >= 2 /\ re[2] = "*"
         THEN \E k \in 0..Len(txt) :
                 /\ \A i \in 1..k : CharMatch(re[1], txt[i])
                 /\ MatchHere(SubSeq(re, 3, Len(re)), SubSeq(txt, k + 1, Len(txt)))
    ELSE /\ txt # <<>>
         /\ CharMatch(re[1], txt[1])
         /\ MatchHere(Tail(re), Tail(txt))

\* re.search(pattern, text, re.IGNORECASE)
Search(re, txt) ==
    IF re # <<>> /\ re[1] = "^" THEN MatchHere(Tail(re), txt)
    ELSE \E i \in 0..Len(txt) : MatchHere(re, SubSeq(txt, i + 1, Len(txt)))

\* One operator of an operator-expression on an item value: "False" when
\* the loop returns False, "True" when it goes on to the next operator,
\* "re.error" when re.search raises.  TypeError is caught and gives False;
\* an operator that is none of the eight is passed over.
OneOperator(item_value, op, op_value) ==
    IF item_value = NoneV /\ op \in {"$gt", "$lt", "$gte", "$lte", "$between"}
    THEN "False"
    ELSE IF op = "$gt"
         THEN (IF Compare(item_value, op_value) = "gt" THEN "True" ELSE "False")
    ELSE IF op = "$lt"
         THEN (IF Compare(item_value, op_value) = "lt" THEN "True" ELSE "False")
    ELSE IF op = "$gte"
         THEN (IF Compare(item_value, op_value) \in {"gt", "eq"} THEN "True" ELSE "False")
    ELSE IF op = "$lte"
         THEN (IF Compare(item_value, op_value) \in {"lt", "eq"} THEN "True" ELSE "False")
    ELSE IF op = "$ne"
         THEN (IF item_value = op_value THEN "False" ELSE "True")
    ELSE IF op = "$in"
         THEN (IF Contains(item_value, op_value) = "True" THEN "True" ELSE "False")
    ELSE IF op = "$between"
         THEN (IF op_value.t # "list" \/ Len(op_value.items) # 2 THEN "False"
               ELSE IF Compare(op_value.items[1], item_value) \notin {"lt", "eq"} THEN "False"
               ELSE IF Compare(item_value, op_value.items[2]) \notin {"lt", "eq"} THEN "False"
               ELSE "True")
    ELSE IF op = "$like"
         THEN (IF item_value = NoneV THEN "False"
               ELSE IF CompileError(LikePattern(Str(op_value))) THEN "re.error"
               ELSE IF Search(LikePattern(Str(op_value)), Str(item_value)) THEN "True"
               ELSE "False")
    ELSE "True"

\* A faulty variant of the loop that looks at the first operator only.
OperatorLoop_First(item_value, ops) ==
    IF ops = <<>> THEN "True"
    ELSE OneOperator(item_value, Head(ops)[1], Head(ops)[2])

\* for op, op_value in value.items(): ... return True
RECURSIVE OperatorLoop(_, _)
OperatorLoop(item_value, ops) ==
    IF ops = <<>> THEN "True"
    ELSE LET r == OneOperator(item_value, Head(ops)[1], Head(ops)[2])
         IN IF r = "True" THEN OperatorLoop(item_value, Tail(ops)) ELSE r

\* matches_condition(item, key, value)
matches_condition(item, key, value) ==
    IF value.t = "dict" THEN OperatorLoop(ItemGet(item, key), value.ops)
    ELSE IF ItemGet(item, key) = value THEN "True" ELSE "False"

\* all(matches_condition(item, k, v) for k, v in conditions.items())
RECURSIVE AllConditions(_, _)
AllConditions(item, conditions) ==
    IF conditions = <<>> THEN "True"
    ELSE LET r == matches_condition(item, Head(conditions)[1], Head(conditions)[2])
         IN IF r = "True" THEN AllConditions(item, Tail(conditions)) ELSE r

\* Indexer.query(conditions) over the records `data`: the list and no error,
\* or the error the evaluation of the first raising record ends with.
Indexer_query_conditions(data, conditions) ==
    LET how == [j \in 1..Len(data) |-> AllConditions(data[j], conditions)]
    IN IF conditions = <<>> THEN [err |-> "none", recs |-> data]
       ELSE IF \E j \in 1..Len(data) : how[j] = "re.error"
            THEN [err |-> "re.error", recs |-> <<>>]
       ELSE [err |-> "none",
             recs |-> SelectBy(data, [j \in 1..Len(data) |-> how[j] = "True"])]

\* An Indexer built over a list, as the callers of Indexer use it:
\* indexer.build(data), then indexer.query(conditions).
QueryRecords ==
    [one   |-> [a |-> IntV(1), n |-> StrV(<<"a", "b">>)],
     two   |-> [a |-> IntV(2), n |-> StrV(<<"b">>)],
     null  |-> [a |-> NoneV],
     name  |-> [n |-> StrV(<<"A", "b">>)],
     mixed |-> [a |-> StrV(<<"b">>), n |-> IntV(1)]]

QueryData ==
    { <<>>,
      <<QueryRecords.one, QueryRecords.two>>,
      <<QueryRecords.two, QueryRecords.one>>,
      <<QueryRecords.null, QueryRecords.two, QueryRecords.mixed>>,
      <<QueryRecords.name, QueryRecords.one>>,
      <<QueryRecords.null>> }

CompareOps == {"$gt", "$lt", "$gte", "$lte", "$ne", "$in", "$between"}

Operands ==
    { IntV(1), IntV(2), StrV(<<"b">>), NoneV,
      ListV(<<IntV(1), IntV(2)>>), ListV(<<IntV(1)>>),
      ListV(<<IntV(1), StrV(<<"b">>)>>) }

LikeOperands ==
    { StrV(<<"a", "%">>), StrV(<<"_", "b">>), StrV(<<"%", "b">>), StrV(<<"(">>),
      IntV(1) }

QueryConditions ==
    { <<>> }
    \cup { << <<"a", DictV(<< <<op, x>> >>)>> >> : op \in CompareOps, x \in Operands }
    \cup { << <<"n", DictV(<< <<"$like", x>> >>)>> >> : x \in LikeOperands }
    \cup { << <<"a", x>> >> : x \in {IntV(1), NoneV} }
    \cup { << <<"a", DictV(<< <<"$gte", IntV(1)>>, <<"$lt", IntV(2)>> >>)>> >>,
           << <<"a", DictV(<< <<"$ne", IntV(1)>>,
                              <<"$in", ListV(<<IntV(1), IntV(2)>>)>> >>)>> >>,
           << <<"a", DictV(<< <<"$gte", IntV(1)>> >>)>>, <<"n", StrV(<<"b">>)>> >>,
           << <<"a", IntV(2)>>, <<"n", DictV(<< <<"$like", StrV(<<"(">>)>> >>)>> >> }

InitQuery ==
    \E L \in QueryData :
        /\ heap = L
        /\ lists = << [i \in 1..Len(L) |-> i] >>
        /\ dbData = 1
        /\ idxData = 1
        /\ cache = <<>>
        /\ qc = QueryCache_init(TRUE, DefaultCacheSize)
        /\ file = Absent
        /\ wal = Absent
        /\ tmp = 0
        /\ txn = [t \in Txns |-> NoTxn]
        /\ meta = [version |-> 0, migrations |-> <<>>]
        /\ metaFile = [version |-> 0, migrations |-> <<>>]
        /\ schemaPk = FALSE
        /\ res = [op |-> "indexer.build", t |-> 0, err |-> "none", msg |-> "",
                  exc |-> "none", calls |-> <<>>, arg |-> NoValue, ret |-> NoValue]

\* indexer.build(data) with another list.
IndexerBuild(L) ==
    /\ heap' = L
    /\ lists' = << [i \in 1..Len(L) |-> i] >>
    /\ res' = [op |-> "indexer.build", t |-> 0, err |-> "none", msg |-> "",
               exc |-> "none", calls |-> <<>>, arg |-> NoValue, ret |-> NoValue]
    /\ UNCHANGED <<dbData, idxData, cache, qc, file, wal, tmp, txn, meta,
                   metaFile, schemaPk>>

\* indexer.query(conditions)
IndexerQuery(conditions) ==
    LET R == Indexer_query_conditions(ValsOf(heap, lists, idxData), conditions)
    IN /\ res' = [op |-> "indexer.query", t |-> 0, err |-> R.err, msg |-> "",
                  exc |-> "none", calls |-> <<>>,
                  arg |-> [conditions |-> conditions],
                  ret |-> IF R.err = "none" THEN Records(R.recs) ELSE NoValue]
       /\ UNCHANGED <<heap, lists, dbData, idxData, cache, qc, file, wal, tmp,
                      txn, meta, metaFile, schemaPk>>

NextQuery ==
    \/ \E L \in QueryData : IndexerBuild(L)
    \/ \E c \in QueryConditions : IndexerQuery(c)

SpecQuery == InitQuery /\ [][NextQuery]_vars

\* x < y where Python orders the two values.
Less(x, y) ==
    \/ x.t = "int" /\ y.t = "int" /\ x.n < y.n
    \/ x.t = "str" /\ y.t = "str" /\ StrCompare(x.s, y.s) = "lt"

LessEq(x, y) == Less(x, y) \/ (x.t \in {"int", "str"} /\ x = y)

\* The comparison an operator stands for, on a field value x and operand y.
OperatorHolds(op, x, y) ==
    CASE op = "$gt" -> Less(y, x)
      [] op = "$lt" -> Less(x, y)
      [] op = "$gte" -> LessEq(y, x)
      [] op = "$lte" -> LessEq(x, y)
      [] op = "$ne" -> x # y
      [] op = "$in" -> \/ y.t = "list" /\ \E i \in 1..Len(y.items) : y.items[i] = x
                       \/ /\ y.t = "str" /\ x.t = "str"
                          /\ \E i \in 0..Len(y.s), j \in 0..Len(y.s) :
                                i <= j /\ SubSeq(y.s, i + 1, j) = x.s
      [] op = "$between" -> /\ y.t = "list" /\ Len(y.items) = 2
                            /\ LessEq(y.items[1], x) /\ LessEq(x, y.items[2])

\* The condition `value` on field `key` holds in record d.
FieldHolds(d, key, value) ==
    IF value.t = "dict"
    THEN \A i \in 1..Len(value.ops) :
            OperatorHolds(value.ops[i][1], ItemGet(d, key), value.ops[i][2])
    ELSE ItemGet(d, key) = value

\* No operator-expression of the conditions uses $like.
Comparisons(conditions) ==
    \A i \in 1..Len(conditions) :
        conditions[i][2].t = "dict"
            => \A k \in 1..Len(conditions[i][2].ops) :
                  conditions[i][2].ops[k][1] \in CompareOps

IndexerData == ValsOf(heap, lists, idxData)

\* C33: query(conditions) with literals and the operators $gt, $lt, $gte,
\* $lte, $ne, $in and $between returns, in list order, exactly the records
\* in which every field condition holds, an operator-expression holding when
\* each of its operators holds as the comparison it names; empty conditions
\* return all records in their order.
C33_QuerySemantics ==
    [][(res'.op = "indexer.query" /\ Comparisons(res'.arg.conditions))
          => /\ res'.err = "none"
             /\ res'.ret =
                  Records(SelectBy(IndexerData,
                      [j \in 1..Len(IndexerData) |->
                          \A i \in 1..Len(res'.arg.conditions) :
                              FieldHolds(IndexerData[j],
                                         res'.arg.conditions[i][1],
                                         res'.arg.conditions[i][2])]))]_vars

\* A query with two operators on one field has returned the one record of
\* two that satisfies both.
C33_Witness ==
    /\ res.op = "indexer.query" /\ res.err = "none"
    /\ res.arg.conditions # <<>>
    /\ res.arg.conditions[1][2].t = "dict"
    /\ Len(res.arg.conditions[1][2].ops) = 2
    /\ Len(IndexerData) = 2
    /\ res.ret = Records(<<QueryRecords.one>>)

\* C34: a query never raises: whatever the records and the conditions are,
\* query(conditions) returns a list.
C34_QueriesNeverRaise ==
    [][res'.op = "indexer.query" => res'.err = "none"]_vars

\* The same for conditions whose $like patterns are well formed.
C34_NeverRaiseWellFormed ==
    [][(res'.op = "indexer.query"
        /\ \A i \in 1..Len(res'.arg.conditions) :
              res'.arg.conditions[i][2] # DictV(<< <<"$like", StrV(<<"(">>)>> >>))
          => res'.err = "none"]_vars

====
